---- MODULE Spec2Model ----
(***************************************************************************)
(* Verification model of the JFK-files document pipeline.                  *)
(*                                                                         *)
(*   SpecConv : the PDF -> Markdown backend chain                          *)
(*              (src/utils/pdf2md_wrapper.py)                              *)
(*   SpecFile : process_file for one URL after another: download with      *)
(*              retry, PDF -> Markdown, Markdown -> JSON, storage, metrics *)
(*              (src/utils/batch_utils.py, download_utils.py,              *)
(*               logging_utils.py, conversion_utils.py)                    *)
(*   SpecOrch : the large-scale processor: status map, worker pool,        *)
(*              checkpoints, crash and resume (src/optimization.py)        *)
(*   SpecMapper : the Markdown -> JSON mapper on one file                  *)
(*              (src/utils/conversion_utils.py)                            *)
(*   SpecDoc  : format detection and repair of one document                *)
(*              (src/utils/pdf_utils.py, conversion_utils.py)              *)
(*   SpecText : post_process_markdown on one text                          *)
(*              (src/utils/conversion_utils.py)                            *)
(*   SpecAgg  : the knowledge-base files: store_json_data and              *)
(*              format_for_gpt (src/utils/storage.py,                      *)
(*              scripts/format_gpt_json.py, scripts/validate_gpt_json.py)  *)
(*   SpecCkpt : a checkpoint saved by either checkpoint manager, the       *)
(*              process killed at any point                                *)
(*              (src/utils/checkpoint_utils.py, src/optimization.py)       *)
(*   SpecPool : the configurations built and the monitor's resource checks *)
(*              (src/optimization.py, src/utils/batch_utils.py)            *)
(*   SpecStore : StorageManager's store_file and cleanup                   *)
(*              (src/utils/storage.py)                                     *)
(*   SpecSig  : the threads of process_urls, their locks and the signal    *)
(*              handler (src/optimization.py)                              *)
(*   SpecShare : store_json_data called by several workers                 *)
(*              (src/utils/storage.py)                                     *)
(*   SpecBatch : process_all_files and its optimized path                  *)
(*              (src/utils/batch_utils.py)                                 *)
(*                                                                         *)
(* Every specification constrains all variables; the variables of the      *)
(* components a specification does not exercise stay at their idle value.  *)
(***************************************************************************)
EXTENDS Integers, Sequences, FiniteSets, TLC

VARIABLES
    \* ---- PDF2MarkdownWrapper.markdown / convert_pdf_to_markdown ----
    pdf,                  \* the call: file on disk, arguments, availability flags
    cpc,                  \* position inside markdown() / convert_pdf_to_markdown()
    needs_ocr,            \* local needs_ocr of markdown()
    markdown_text,        \* local markdown_text of markdown() (may be unbound)
    conversion_attempts,  \* local conversion_attempts of markdown()
    calls,                \* history: backends invoked so far, in order
    md_result,            \* what markdown() returned or raised
    conv_result,          \* what convert_pdf_to_markdown() returned or raised
    \* ---- process_file / download_pdf / download_file ----
    fpc,                  \* position inside process_file()
    pf_calls,             \* process_file calls begun so far
    save_file,            \* the file at save_path: absent, empty, partial, complete
    retry,                \* local retry of retry_with_backoff's wrapper
    delay,                \* local delay of retry_with_backoff's wrapper
    responses,            \* history: the server's answer to each request of this call
    sleeps,               \* history: the time.sleep() arguments of this call
    pdf_path,             \* what download_pdf() returned or raised
    markdown_path,        \* what pdf_to_markdown() returned
    markdown_file,        \* the Markdown file the mapper reads
    json_content,         \* what _convert_markdown_to_json() returned or raised
    json_path,            \* what markdown_to_json() returned
    pf_result,            \* what process_file() returned or raised
    performance_metrics,  \* logging_utils._performance_metrics (the file counters)
    \* ---- LargeScaleProcessor / AdaptiveThreadPool / EnhancedCheckpointManager ----
    opc,                  \* the main thread: stopped, in process_urls' loop, returned,
                          \* signalled (in the signal handler), draining
    runs,                 \* processes started so far
    worklist,             \* the urls argument of process_urls
    url_status,           \* LargeScaleProcessor.url_status ("absent": no such key)
    url_queue,            \* local url_queue of process_urls
    active_futures,       \* local active_futures of process_urls (by URL)
    max_concurrent,       \* local max_concurrent of process_urls
    worker,               \* each URL's task: none, admitted (submit() is past its wait),
                          \* submitted, running, finished
    checkpoint_file,      \* the checkpoint on disk
    processed_since_checkpoint,   \* EnhancedCheckpointManager.processed_since_checkpoint
    processing_stats,     \* LargeScaleProcessor.processing_stats
    consecutive_errors,   \* error_tracking["consecutive_errors"]
    pause_event,          \* AdaptiveThreadPool.pause_event is set (not paused)
    timers,               \* threading.Timer objects that have not gone off yet
    resumed,              \* resume_from_checkpoint() returned True in this run
    restored,             \* history: the status map this run started from
    started,              \* history: URLs whose wrapper started in this run
    killed,               \* history: the worklist of the process killed last ({}: none)
    main_snapshot,        \* checkpoint_data the signal handler's shutdown() has built
    written,              \* history: a checkpoint was written in this run
    \* ---- detect_document_format / repair_document ----
    dpc,                  \* position: idle, detected, repaired
    doc,                  \* the document on disk and the HAS_PYMUPDF flag
    report,               \* what detect_document_format() returned
    repaired,             \* what repair_document() returned and left on disk
    \* ---- post_process_markdown ----
    tpc,                  \* position: idle, returned
    markdown_in,          \* the markdown_text argument, as its lines
    is_ocr,               \* the is_ocr argument
    markdown_out,         \* the returned text, as its lines
    \* ---- store_json_data / format_for_gpt ----
    apc,                  \* position: storing, formatted
    kb_file,              \* the file at output_path of store_json_data
    store_log,            \* history: the records stored, in order
    gpt_input,            \* the input_data argument of format_for_gpt
    gpt_output,           \* what format_for_gpt() returned
    \* ---- CheckpointManager.save / EnhancedCheckpointManager.create_checkpoint ----
    kpc,                  \* position inside the save, its manager and its data
    ckpt_dir,             \* the files of the checkpoint directory
    \* ---- OptimizationConfig / AdaptiveThreadPool._monitor_resources ----
    pool,                 \* the configuration's MAX_WORKERS, active_workers and the
                          \* monitor thread's two local counters
    \* ---- StorageManager ----
    stored_files,         \* the files under pdfs/, markdown/, json/ by document and type
    metadata_index,       \* StorageManager._metadata_index (file types by document)
    storage_call,         \* the last call made on the manager and how it ended
    \* ---- the threads of process_urls and their locks ----
    main_at,              \* the main thread's position in process_urls
    task_at,              \* each task's position in _process_file_wrapper
    handler_at,           \* the signal handler's position in shutdown()
    lock_owner,           \* the thread holding LargeScaleProcessor.lock,
                          \* EnhancedCheckpointManager.lock, AdaptiveThreadPool.lock
    \* ---- store_json_data called by several workers ----
    writer_at,            \* each worker's position inside store_json_data
    existing_data,        \* each worker's local existing_data, as read from the file
    output_file,          \* the file at output_path (lite_llm/jfk_files.json)
    \* ---- process_all_files / _process_all_files_optimized ----
    batch                 \* the call: its position, the frames on the stack, how each
                          \* run of the optimized processor ended, the result

convVars == <<pdf, cpc, needs_ocr, markdown_text, conversion_attempts, calls,
              md_result, conv_result>>

fileVars == <<fpc, pf_calls, save_file, retry, delay, responses, sleeps, pdf_path,
              markdown_path, markdown_file, json_content, json_path, pf_result,
              performance_metrics>>

orchVars == <<opc, runs, worklist, url_status, url_queue, active_futures,
              max_concurrent, worker, checkpoint_file, processed_since_checkpoint,
              processing_stats, consecutive_errors, pause_event, timers, resumed,
              restored, started, killed, main_snapshot, written>>

docVars == <<dpc, doc, report, repaired>>

textVars == <<tpc, markdown_in, is_ocr, markdown_out>>

aggVars == <<apc, kb_file, store_log, gpt_input, gpt_output>>

ckptVars == <<kpc, ckpt_dir>>

baseVars == <<convVars, fileVars, orchVars, docVars, textVars, aggVars>>

poolVars == <<pool>>

storeVars == <<stored_files, metadata_index, storage_call>>

sigVars == <<main_at, task_at, handler_at, lock_owner>>

shareVars == <<writer_at, existing_data, output_file>>

batchVars == <<batch>>

extVars == <<ckptVars, poolVars, storeVars, sigVars, shareVars, batchVars>>

nonConvVars == <<fileVars, orchVars, docVars, textVars, aggVars,
                extVars>>

nonFileVars == <<convVars, orchVars, docVars, textVars, aggVars,
                extVars>>

nonOrchVars == <<convVars, fileVars, docVars, textVars, aggVars,
                extVars>>

nonDocVars == <<convVars, fileVars, orchVars, textVars, aggVars,
                extVars>>

nonTextVars == <<convVars, fileVars, orchVars, docVars, aggVars,
                extVars>>

nonAggVars == <<convVars, fileVars, orchVars, docVars, textVars,
                extVars>>

nonCkptVars == <<baseVars, poolVars, storeVars, sigVars, shareVars, batchVars>>

nonPoolVars == <<baseVars, ckptVars, storeVars, sigVars, shareVars, batchVars>>

nonStoreVars == <<baseVars, ckptVars, poolVars, sigVars, shareVars, batchVars>>

nonSigVars == <<baseVars, ckptVars, poolVars, storeVars, shareVars, batchVars>>

nonBatchVars == <<baseVars, ckptVars, poolVars, storeVars, sigVars, shareVars>>

nonShareVars == <<baseVars, ckptVars, poolVars, storeVars, sigVars, batchVars>>

vars == <<baseVars, extVars>>

(***************************************************************************)
(* Bounds of the model.                                                    *)
(***************************************************************************)
MaxPages == 1        \* pages of a document that the scan detection samples
MaxCalls == 2        \* process_file calls in one run of the process
MaxLines == 2        \* lines of a Markdown file
MaxUrls == 2         \* URLs there are
MaxRuns == 2         \* processes started one after another

\* An OptimizationConfig scaled to the worklists above.
INITIAL_WORKERS == 2
CHECKPOINT_INTERVAL == 2
MAX_ERRORS_BEFORE_PAUSE == 1

Min(a, b) == IF a < b THEN a ELSE b

Max(a, b) == IF a > b THEN a ELSE b

(***************************************************************************)
(* Values of the file pipeline, and its state before the first call.       *)
(***************************************************************************)
MAX_RETRIES == 3           \* @retry_with_backoff(max_retries=3, ...)
INITIAL_DELAY == 1         \* @retry_with_backoff(..., initial_delay=1, ...)
BACKOFF_FACTOR == 2        \* @retry_with_backoff(..., backoff_factor=2, ...)

\* A call's result: not yet there, returned (value) or raised (exc).
Running == [kind |-> "running", value |-> "", exc |-> ""]
Returned(v) == [kind |-> "returned", value |-> v, exc |-> ""]
Raises(e) == [kind |-> "raised", value |-> "", exc |-> e]

\* The mapper's result before the mapper has run.
JsonRunning ==
    [kind |-> "running", value |-> "", exc |-> "", note |-> "", sections |-> <<>>,
     fullText |-> <<>>]

NoFile == [state |-> "absent", lines |-> <<>>]

ZeroMetrics == [processed_files |-> 0, successful_files |-> 0, failed_files |-> 0]

FileIdle ==
    /\ fpc = "idle"
    /\ pf_calls = 0
    /\ save_file = "absent"
    /\ retry = 0
    /\ delay = INITIAL_DELAY
    /\ responses = <<>>
    /\ sleeps = <<>>
    /\ pdf_path = Running
    /\ markdown_path = Running
    /\ markdown_file = NoFile
    /\ json_content = JsonRunning
    /\ json_path = Running
    /\ pf_result = Running
    /\ performance_metrics = ZeroMetrics

(***************************************************************************)
(* Values of the orchestrator, and its state while no process runs.        *)
(***************************************************************************)
URLS == 1..MaxUrls

ZeroStats == [total_files |-> 0, processed_files |-> 0, successful_files |-> 0,
              failed_files |-> 0, in_progress_files |-> 0]

NoCheckpoint == [present |-> FALSE, url_status |-> [u \in URLS |-> "absent"],
                 processing_stats |-> ZeroStats]

OrchIdle(pc) ==
    /\ opc = pc
    /\ runs = 0
    /\ worklist = {}
    /\ url_status = [u \in URLS |-> "absent"]
    /\ url_queue = {}
    /\ active_futures = {}
    /\ max_concurrent = INITIAL_WORKERS
    /\ worker = [u \in URLS |-> "none"]
    /\ checkpoint_file = NoCheckpoint
    /\ processed_since_checkpoint = 0
    /\ processing_stats = ZeroStats
    /\ consecutive_errors = 0
    /\ pause_event = TRUE
    /\ timers = 0
    /\ resumed = FALSE
    /\ restored = [u \in URLS |-> "absent"]
    /\ started = {}
    /\ killed = {}
    /\ main_snapshot = NoCheckpoint
    /\ written = FALSE

(***************************************************************************)
(* Values of the format detector and the repairer, and their state before  *)
(* the first call.                                                         *)
(*   has_pymupdf  HAS_PYMUPDF                                              *)
(*   size         os.path.getsize: "error" (it raises), "tiny" (under      *)
(*                0.01 MB, not 0), "normal"                                *)
(*   opens        fitz.open(pdf_path) succeeds                             *)
(*   encrypted    doc.is_encrypted                                         *)
(*   auth         doc.authenticate(""): "ok", "fail", "raise"              *)
(*   reads_raise  len(doc) or a page read raises                           *)
(*   pages        per page: more than 100 characters of text, any image,   *)
(*                rotation other than 0, unusual font references (-1:      *)
(*                get_fonts raises)                                        *)
(***************************************************************************)
Document(lib, s, o, e, a, rr, pg) ==
    [has_pymupdf |-> lib, size |-> s, opens |-> o, encrypted |-> e, auth |-> a,
     reads_raise |-> rr, pages |-> pg]

NoDocument == Document(FALSE, "error", FALSE, FALSE, "ok", FALSE, <<>>)

\* A report: the keys of the returned dict that callers read ("absent": the
\* dict has no such key), or the bare bool returned without include_details.
Report(k, ocr, rare, type, strategy) ==
    [kind |-> k, needs_ocr |-> ocr, is_rare_format |-> rare,
     rare_format_type |-> type, processing_strategy |-> strategy]

NoReport == Report("none", FALSE, FALSE, "absent", "absent")

\* repair_document's return value, what remains of tempfile.mkdtemp's
\* directory ("never": not created; "dir": the directory alone; "dir_file":
\* the directory and the saved file; "removed"), and the page count of the
\* re-opened file (-1: not re-opened).
Repair(r, t, n) == [result |-> r, temp_dir |-> t, check_pages |-> n]

NoRepair == Repair("running", "never", -1)

DocIdle ==
    /\ dpc = "idle"
    /\ doc = NoDocument
    /\ report = NoReport
    /\ repaired = NoRepair

\* The post-processor before its call.
TextIdle ==
    /\ tpc = "idle"
    /\ markdown_in = <<>>
    /\ is_ocr = FALSE
    /\ markdown_out = <<>>

\* The knowledge-base file: absent, a JSON list of entries, or not JSON.
KbFile(st, es) == [state |-> st, entries |-> es]

\* format_for_gpt's result: the metadata element's document_count and the
\* document entries after it.
GptData(made, n, ds) == [made |-> made, document_count |-> n, docs |-> ds]

AggIdle ==
    /\ apc = "storing"
    /\ kb_file = KbFile("absent", <<>>)
    /\ store_log = <<>>
    /\ gpt_input = <<>>
    /\ gpt_output = GptData(FALSE, 0, <<>>)

\* The components outside the three pipelines, all idle.
\* A file of the checkpoint directory: absent, or the pickle of checkpoint
\* number v, whole or cut short.
CkptFile(v, whole) == [exists |-> TRUE, v |-> v, whole |-> whole]

NoCkptFile == [exists |-> FALSE, v |-> 0, whole |-> FALSE]

CkptPaths == {"temp", "final", "history_temp", "history"}

\* A save: where it stands ("idle": no save in progress), which manager runs
\* it, the number of the checkpoint it saves, what it returned, and whether
\* the process was killed during it.
Save(at, manager, v, result, killed_in) ==
    [at |-> at, manager |-> manager, v |-> v, result |-> result, killed |-> killed_in]

CkptIdle ==
    /\ kpc = Save("idle", "basic", 0, "none", FALSE)
    /\ ckpt_dir = [f \in CkptPaths |-> NoCkptFile]

\* A thread pool and its monitor: whether it was built, config.MAX_WORKERS,
\* active_workers, consecutive_high_load and consecutive_low_load.
Pool(built, max_workers, active_workers, high, low) ==
    [built |-> built, max_workers |-> max_workers, active_workers |-> active_workers,
     consecutive_high_load |-> high, consecutive_low_load |-> low]

PoolIdle == pool = Pool(FALSE, 0, 0, 0, 0)

MaxStoredDocs == 2        \* document ids the storage manager is used with

DocIds == 1..MaxStoredDocs

StoredTypes == {"pdf", "markdown", "json"}

\* A call on the storage manager: the method, its doc_id, whether the
\* document had a stored file when the call was made, and how the call ended.
StorageCall(op, doc_id, had_file, result) ==
    [op |-> op, doc_id |-> doc_id, had_file |-> had_file, result |-> result]

StoreIdle ==
    /\ stored_files = [d \in DocIds |-> {}]
    /\ metadata_index = [d \in DocIds |-> {}]
    /\ storage_call = StorageCall("none", 0, FALSE, "none")

MaxTasks == 2             \* URLs of the process_urls call the signal arrives in

Tasks == 1..MaxTasks

Locks == {"processor", "manager", "pool"}

\* The holder of a lock: nobody, the main thread (its signal handler runs on
\* the same thread), or the worker thread of a task.
Owner(kind, task) == [kind |-> kind, task |-> task]

Nobody == Owner("nobody", 0)

MainThread == Owner("main", 0)

SigIdle ==
    /\ main_at = "loop"
    /\ task_at = [t \in Tasks |-> "queue"]
    /\ handler_at = "none"
    /\ lock_owner = [l \in Locks |-> Nobody]

MaxWriters == 3           \* workers that finish a document at about the same time

Writers == 1..MaxWriters

ShareIdle ==
    /\ writer_at = [w \in Writers |-> "process_file"]
    /\ existing_data = [w \in Writers |-> KbFile("absent", <<>>)]
    /\ output_file = KbFile("absent", <<>>)

\* A process_all_files call: where control is, whether src.optimization can
\* be imported, the frames on the call stack, how the runs of the optimized
\* processor ended so far, whether the basic batch loop ran, and what the
\* outermost call returned or raised.
Batch(at, has_optimization, frames, runs_ended, basic_ran, result) ==
    [at |-> at, has_optimization |-> has_optimization, frames |-> frames,
     runs_ended |-> runs_ended, basic_ran |-> basic_ran, result |-> result]

BatchIdle == batch = Batch("idle", FALSE, 0, <<>>, FALSE, "none")

ExtIdle == CkptIdle /\ PoolIdle /\ StoreIdle /\ SigIdle /\ ShareIdle /\ BatchIdle

ToolsIdle == DocIdle /\ TextIdle /\ AggIdle /\ ExtIdle

(***************************************************************************)
(* Values of Python locals: a text, None, an unbound name, a raised        *)
(* exception.  A text is known by who produced it, its length (raw) and    *)
(* its length after str.strip() (trim).                                    *)
(***************************************************************************)
ACCEPT_LEN == 100          \* "len(markdown_text.strip()) > 100"
SCAN_SAMPLE_PAGES == 3     \* "pages_to_check = min(3, len(doc))"
FALLBACK_LEN == 374        \* fixed characters of the fallback template
ERROR_LEN == 42            \* fixed characters of "# Error Converting ..."
INFO_LEN == 134            \* fixed characters of the conversion_info footer

Unbound == [kind |-> "unbound", by |-> "", trim |-> 0, raw |-> 0,
            has_filename |-> FALSE, errors |-> <<>>]
None == [kind |-> "none", by |-> "", trim |-> 0, raw |-> 0,
         has_filename |-> FALSE, errors |-> <<>>]
Raised(who) == [kind |-> "raised", by |-> who, trim |-> 0, raw |-> 0,
                has_filename |-> FALSE, errors |-> <<>>]
Text(who, t, r) == [kind |-> "text", by |-> who, trim |-> t, raw |-> r,
                    has_filename |-> FALSE, errors |-> <<>>]

\* Python truthiness of a bound value: None and "" are falsy.
Truthy(v) == v.kind = "text" /\ v.raw > 0

Backends == {"gpt", "pymupdf", "pytesseract"}

\* What a backend's library does with the file: raises, finds nothing worth
\* returning, or produces text.
InnerRaise(b) == [kind |-> "raise", trim |-> 0, raw |-> 0, err |-> "error in " \o b]
InnerNothing == [kind |-> "nothing", trim |-> 0, raw |-> 0, err |-> ""]
InnerText(t, r) == [kind |-> "text", trim |-> t, raw |-> r, err |-> ""]

\* Lengths around the acceptance threshold; the text of exactly ACCEPT_LEN
\* characters carries surrounding whitespace that strip() removes.
InnerTexts == {InnerText(ACCEPT_LEN, ACCEPT_LEN + 2),
               InnerText(ACCEPT_LEN + 1, ACCEPT_LEN + 1)}

InnerOutcomes(b) ==
    {InnerRaise(b), InnerNothing} \cup InnerTexts
        \cup (IF b = "gpt" THEN {InnerText(0, 0)} ELSE {})

OcrAvailable(p) == p.pytesseract_available /\ p.pdf2image_available

Available(p, b) ==
    CASE b = "gpt" -> p.pdf2md_available
      [] b = "pymupdf" -> p.pymupdf_available
      [] b = "pytesseract" -> OcrAvailable(p)

(***************************************************************************)
(* The inputs of one convert_pdf_to_markdown call: the arguments, the      *)
(* flags PDF2MarkdownWrapper.__init__ sets, and the file.                  *)
(*   exists        os.path.exists(pdf_path)                                *)
(*   opens         fitz.open(pdf_path) succeeds                            *)
(*   text_blocks   sampled pages with more than 100 characters of text     *)
(*   image_blocks  sampled pages with at least one image                   *)
(*   size          "small" (<= 1000 KB), "large_text" (text markers in the *)
(*                 first KB), "large_scan" (none)                          *)
(*   inner         what each backend's library does with the file          *)
(* A property of the file that no line of the code can read under the      *)
(* given flags is held at one value: the page sample without PyMuPDF, the  *)
(* size when PyMuPDF opens the file, the outcome of a library that is not  *)
(* installed (ImportError) or of any library on a missing file.            *)
(***************************************************************************)
SampledPages == 0..Min(SCAN_SAMPLE_PAGES, MaxPages)

Sizes == {"small", "large_text", "large_scan"}

Flags == [pymupdf_available : BOOLEAN, pytesseract_available : BOOLEAN,
          pdf2image_available : BOOLEAN, pdf2md_available : BOOLEAN]

Args == [force_ocr : BOOLEAN, ocr_quality : {"low", "medium", "high"},
         use_gpt : BOOLEAN]

OutcomesIf(installed, b) == IF installed THEN InnerOutcomes(b) ELSE {InnerRaise(b)}

InnerOf(g, m, o) ==
    [b \in Backends |-> CASE b = "gpt" -> g [] b = "pymupdf" -> m [] b = "pytesseract" -> o]

File(e, op, t, i, s, in) ==
    [exists |-> e, opens |-> op, text_blocks |-> t, image_blocks |-> i,
     size |-> s, inner |-> in]

MissingFile ==
    File(FALSE, FALSE, 0, 0, "small", [b \in Backends |-> InnerRaise(b)])

\* Files PyMuPDF opens (only when it is installed).
OpeningFiles(fl) ==
    IF ~fl.pymupdf_available THEN {}
    ELSE { File(TRUE, TRUE, t, i, "small", InnerOf(g, m, o)) :
             t \in SampledPages, i \in SampledPages,
             g \in OutcomesIf(fl.pdf2md_available, "gpt"),
             m \in InnerOutcomes("pymupdf"),
             o \in OutcomesIf(OcrAvailable(fl), "pytesseract") }

\* Files PyMuPDF cannot open: corrupt or zero-byte, or PyMuPDF is missing.
ClosedFiles(fl) ==
    { File(TRUE, FALSE, 0, 0, s, InnerOf(g, InnerRaise("pymupdf"), o)) :
        s \in Sizes,
        g \in OutcomesIf(fl.pdf2md_available, "gpt"),
        o \in OutcomesIf(OcrAvailable(fl), "pytesseract") }

Files(fl) == {MissingFile} \cup OpeningFiles(fl) \cup ClosedFiles(fl)

Call(f, a, fl) ==
    [exists |-> f.exists, opens |-> f.opens, text_blocks |-> f.text_blocks,
     image_blocks |-> f.image_blocks, size |-> f.size, inner |-> f.inner,
     force_ocr |-> a.force_ocr, ocr_quality |-> a.ocr_quality,
     use_gpt |-> a.use_gpt,
     pymupdf_available |-> fl.pymupdf_available,
     pytesseract_available |-> fl.pytesseract_available,
     pdf2image_available |-> fl.pdf2image_available,
     pdf2md_available |-> fl.pdf2md_available]

Calls == UNION { { Call(f, a, fl) : f \in Files(fl), a \in Args } : fl \in Flags }

(***************************************************************************)
(* PDF2MarkdownWrapper helpers.                                            *)
(***************************************************************************)
\* _is_likely_scanned: PyMuPDF sampling, else the file-size check.
IsLikelyScanned(p) ==
    IF p.pymupdf_available /\ p.opens
    THEN (p.image_blocks >= p.text_blocks) \/ (p.text_blocks = 0)
    ELSE IF p.size = "small" THEN FALSE ELSE p.size = "large_scan"

\* Rasterisation resolution chosen from the quality argument.
Dpi(q) == IF q = "high" THEN 300 ELSE IF q = "medium" THEN 200 ELSE 150

\* Each helper wraps its whole body in try/except and returns None on any
\* exception, on a missing library and on "no meaningful text".
HelperReturn(b, o) == IF o.kind = "text" THEN Text(b, o.trim, o.raw) ELSE None

ConvertWithPymupdf(p) == HelperReturn("pymupdf", p.inner["pymupdf"])

ConvertWithPytesseract(p, dpi) ==
    IF ~p.pytesseract_available \/ ~p.pdf2image_available
    THEN None
    ELSE HelperReturn("pytesseract", p.inner["pytesseract"])

ConvertWithGpt(p, dpi) ==
    IF ~p.pdf2md_available THEN None ELSE HelperReturn("gpt", p.inner["gpt"])

\* Mutant of Accepted: the length test without strip().
Accepted_NoStrip(v) == Truthy(v) /\ v.raw > ACCEPT_LEN

\* "markdown_text and len(markdown_text.strip()) > 100"
Accepted(v) == Truthy(v) /\ v.trim > ACCEPT_LEN

\* _fallback_convert: the templated stub, with one "### <Method> Conversion"
\* block holding the first line of each recorded attempt's error.
FallbackConvert(p, attempts) ==
    [kind |-> "text", by |-> "fallback",
     trim |-> FALLBACK_LEN + Len(attempts), raw |-> FALLBACK_LEN + 3 + Len(attempts),
     has_filename |-> TRUE, errors |-> attempts]

\* Mutant of ConvertCatch: no catch-all handler, the exception propagates.
ConvertCatch_Propagate(outcome) == outcome

\* convert_pdf_to_markdown's "except Exception": the error text in place of
\* whatever the body raised.
ConvertCatch(outcome) ==
    IF outcome.kind = "raised"
    THEN [kind |-> "text", by |-> "error", trim |-> ERROR_LEN, raw |-> ERROR_LEN,
          has_filename |-> TRUE, errors |-> <<>>]
    ELSE outcome

\* The try body of convert_pdf_to_markdown: markdown()'s exception propagates,
\* the footer is appended, the optional output file is written.
ConvertBody(m, write) ==
    IF m.kind = "raised" THEN m
    ELSE IF write = "fail" THEN Raised("OSError")
    ELSE [m EXCEPT !.raw = @ + INFO_LEN, !.trim = @ + INFO_LEN - 4]

\* "(needs_ocr or not markdown_text) and pytesseract_available and
\*  pdf2image_available": reading the unbound local raises UnboundLocalError.
OcrGuard(n, mt, p) ==
    IF ~n /\ mt.kind = "unbound" THEN "unbound_error"
    ELSE IF (n \/ ~Truthy(mt)) /\ p.pytesseract_available /\ p.pdf2image_available
    THEN "yes" ELSE "no"

\* "if not needs_ocr and self.pymupdf_available"
DirectGuard(n, p) == ~n /\ p.pymupdf_available

\* Mutant of LastResortGuard: the last resort taken when OCR, not DirectText,
\* was the step skipped.
LastResortGuard_Inverted(n, p) == ~n /\ p.pymupdf_available

\* "if needs_ocr and self.pymupdf_available"
LastResortGuard(n, p) == n /\ p.pymupdf_available

\* "if use_gpt and self.pdf2md_available"
GptGuard(p) == p.use_gpt /\ p.pdf2md_available

(***************************************************************************)
(* PDF2MarkdownWrapper.markdown, one action per block of the chain.        *)
(***************************************************************************)
\* One guarded "try: markdown_text = helper(); if accepted: return" block.
\* r is the helper's outcome; an exception is recorded in conversion_attempts.
TryBlock(b, method, r, next) ==
    /\ calls' = Append(calls, b)
    /\ IF r.kind = "raised"
       THEN /\ conversion_attempts' =
                   Append(conversion_attempts, [method |-> method, summary |-> r.by])
            /\ cpc' = next
            /\ UNCHANGED <<markdown_text, md_result>>
       ELSE /\ markdown_text' = r
            /\ UNCHANGED conversion_attempts
            /\ IF Accepted(r)
               THEN md_result' = r /\ cpc' = "md_returned"
               ELSE cpc' = next /\ UNCHANGED md_result

SkipBlock(next) ==
    /\ cpc' = next
    /\ UNCHANGED <<markdown_text, conversion_attempts, calls, md_result>>

\* Lines 86-102: the missing-file stub, else the OCR decision.
MarkdownBegin ==
    /\ cpc = "start"
    /\ IF ~pdf.exists
       THEN /\ md_result' = FallbackConvert(pdf, <<>>)
            /\ cpc' = "md_returned"
            /\ UNCHANGED needs_ocr
       ELSE /\ needs_ocr' = (pdf.force_ocr \/ IsLikelyScanned(pdf))
            /\ cpc' = "gpt"
            /\ UNCHANGED md_result
    /\ UNCHANGED <<pdf, markdown_text, conversion_attempts, calls, conv_result>>
    /\ UNCHANGED nonConvVars

\* Lines 107-118.
TryGpt ==
    /\ cpc = "gpt"
    /\ IF GptGuard(pdf)
       THEN TryBlock("gpt", "gpt", ConvertWithGpt(pdf, Dpi(pdf.ocr_quality)), "pymupdf")
       ELSE SkipBlock("pymupdf")
    /\ UNCHANGED <<pdf, needs_ocr, conv_result>>
    /\ UNCHANGED nonConvVars

\* Lines 120-130.
TryPymupdf ==
    /\ cpc = "pymupdf"
    /\ IF DirectGuard(needs_ocr, pdf)
       THEN TryBlock("pymupdf", "pymupdf", ConvertWithPymupdf(pdf), "ocr")
       ELSE SkipBlock("ocr")
    /\ UNCHANGED <<pdf, needs_ocr, conv_result>>
    /\ UNCHANGED nonConvVars

\* Lines 132-142.
TryPytesseract ==
    /\ cpc = "ocr"
    /\ LET g == OcrGuard(needs_ocr, markdown_text, pdf) IN
       CASE g = "unbound_error" ->
                /\ md_result' = Raised("UnboundLocalError")
                /\ cpc' = "md_returned"
                /\ UNCHANGED <<markdown_text, conversion_attempts, calls>>
         [] g = "yes" ->
                TryBlock("pytesseract", "pytesseract",
                         ConvertWithPytesseract(pdf, Dpi(pdf.ocr_quality)),
                         "pymupdf_fallback")
         [] OTHER -> SkipBlock("pymupdf_fallback")
    /\ UNCHANGED <<pdf, needs_ocr, conv_result>>
    /\ UNCHANGED nonConvVars

\* Lines 144-154.
TryPymupdfFallback ==
    /\ cpc = "pymupdf_fallback"
    /\ IF LastResortGuard(needs_ocr, pdf)
       THEN TryBlock("pymupdf", "pymupdf_fallback", ConvertWithPymupdf(pdf), "fallback")
       ELSE SkipBlock("fallback")
    /\ UNCHANGED <<pdf, needs_ocr, conv_result>>
    /\ UNCHANGED nonConvVars

\* Line 157.
EmitFallback ==
    /\ cpc = "fallback"
    /\ md_result' = FallbackConvert(pdf, conversion_attempts)
    /\ cpc' = "md_returned"
    /\ UNCHANGED <<pdf, needs_ocr, markdown_text, conversion_attempts, calls,
                   conv_result>>
    /\ UNCHANGED nonConvVars

\* convert_pdf_to_markdown around markdown(): footer, optional output file
\* (absent, written, or failing to write), and the catch-all handler.
ConvertFinish ==
    /\ cpc = "md_returned"
    /\ \E write \in {"none", "ok", "fail"} :
           conv_result' = ConvertCatch(ConvertBody(md_result, write))
    /\ cpc' = "done"
    /\ UNCHANGED <<pdf, needs_ocr, markdown_text, conversion_attempts, calls,
                   md_result>>
    /\ UNCHANGED nonConvVars

ConvInit ==
    /\ FileIdle
    /\ OrchIdle("idle")
    /\ ToolsIdle
    /\ pdf \in Calls
    /\ cpc = "start"
    /\ needs_ocr = FALSE
    /\ markdown_text = Unbound
    /\ conversion_attempts = <<>>
    /\ calls = <<>>
    /\ md_result = None
    /\ conv_result = None

ConvNext ==
    \/ MarkdownBegin
    \/ TryGpt
    \/ TryPymupdf
    \/ TryPytesseract
    \/ TryPymupdfFallback
    \/ EmitFallback
    \/ ConvertFinish

SpecConv == ConvInit /\ [][ConvNext]_vars

\* The converter while another component runs: no call in progress.
ConvIdle ==
    /\ pdf = Call(MissingFile,
                  [force_ocr |-> FALSE, ocr_quality |-> "high", use_gpt |-> FALSE],
                  [pymupdf_available |-> FALSE, pytesseract_available |-> FALSE,
                   pdf2image_available |-> FALSE, pdf2md_available |-> FALSE])
    /\ cpc = "idle"
    /\ needs_ocr = FALSE
    /\ markdown_text = Unbound
    /\ conversion_attempts = <<>>
    /\ calls = <<>>
    /\ md_result = None
    /\ conv_result = None

(***************************************************************************)
(* Claims about the backend chain (checked under SpecConv).                *)
(***************************************************************************)
MarkdownReturned == cpc \in {"md_returned", "done"}

StubEmitted == MarkdownReturned /\ md_result.kind = "text" /\ md_result.by = "fallback"

Invoked(b) == \E i \in 1..Len(calls) : calls[i] = b

TimesInvoked(b) == Cardinality({i \in 1..Len(calls) : calls[i] = b})

\* What backend b gives back for the file of this call.
OutputOf(b) == HelperReturn(b, pdf.inner[b])

\* "longer than 100 characters after trim", as the specification words it.
LongAfterTrim(v) == v.kind = "text" /\ v.trim > ACCEPT_LEN

\* C1: for every input path (missing, zero-byte and corrupt files included)
\* and every combination of forceOcr, quality, useLlm and backend
\* availability, convert_pdf_to_markdown returns a string of length > 0 and
\* raises nothing.
C1_ConvertReturnsNonEmpty ==
    cpc = "done" => (conv_result.kind = "text" /\ conv_result.raw > 0)

\* C1 witness: markdown() itself raised and the converter still returned text.
C1_Witness ==
    cpc = "done" /\ md_result.kind = "raised" /\ conv_result.kind = "text"
        /\ conv_result.raw > 0

\* C6 (as claimed): whenever DirectText was tried and not accepted and the OCR
\* backend is available, OCR is attempted before the fallback stub is emitted.
C6_OcrTriedAfterRejectedDirectText ==
    (StubEmitted /\ Invoked("pymupdf") /\ OcrAvailable(pdf)) => Invoked("pytesseract")

\* C7 (as claimed): the result is the output of the first backend, in the
\* fixed order LLM (if requested and available), DirectText, OCR, whose
\* output is longer than 100 characters after trim.
C7_Eligible(b) ==
    CASE b = "gpt" -> pdf.use_gpt /\ pdf.pdf2md_available
      [] b = "pymupdf" -> pdf.pymupdf_available
      [] b = "pytesseract" -> OcrAvailable(pdf)

C7_Wins(b) == C7_Eligible(b) /\ LongAfterTrim(OutputOf(b))

AttemptOrder(n) ==
    IF n THEN <<"gpt", "pytesseract", "pymupdf">>
         ELSE <<"gpt", "pymupdf", "pytesseract">>

PositionIn(seq, b) == CHOOSE i \in 1..Len(seq) : seq[i] = b

C9_StubSummarisesEveryFailure ==
    StubEmitted =>
        /\ md_result.has_filename
        /\ \A i \in 1..Len(calls) :
              pdf.inner[calls[i]].kind = "raise" =>
                  \E j \in 1..Len(md_result.errors) :
                      md_result.errors[j].summary = pdf.inner[calls[i]].err

(***************************************************************************)
(* Names a module can use: "traceback" is bound only where it is imported. *)
(***************************************************************************)
ImportsTraceback(module) == module \in {"logging_utils", "pdf2md_wrapper"}

(***************************************************************************)
(* download_file under @retry_with_backoff, and download_pdf.              *)
(* The server's answer to one request:                                     *)
(*   ok             200, the body arrives whole                            *)
(*   size_mismatch  200, the body ends short of Content-Length             *)
(*   stream_error   200, the connection breaks while the body streams      *)
(*   write_error    200, writing the file fails (OSError)                  *)
(*   conn_error     no answer (ConnectionError, Timeout)                   *)
(*   http_error     a 4xx/5xx status: raise_for_status() raises HTTPError  *)
(***************************************************************************)
PermanentStatuses == {401, 403, 404}

Response(k, st) == [kind |-> k, status |-> st]

Responses ==
    {Response("ok", 200), Response("size_mismatch", 200),
     Response("stream_error", 200), Response("write_error", 200),
     Response("conn_error", 0)}
        \cup {Response("http_error", st) : st \in PermanentStatuses \cup {500}}

\* The body of download_file for one request: "returned", or the class of
\* the exception it raises.
DownloadFile(r) ==
    CASE r.kind = "conn_error" -> "RequestException"
      [] r.kind = "http_error" -> "HTTPError"
      [] r.kind = "stream_error" -> "RequestException"
      [] r.kind = "write_error" -> "OSError"
      [] r.kind = "size_mismatch" -> "DownloadError"
      [] OTHER -> "returned"

\* The file at save_path after one request: open(save_path, 'wb') is reached
\* only on a 200; a short body is removed again.
SaveFileAfter(f, r) ==
    CASE r.kind \in {"conn_error", "http_error"} -> f
      [] r.kind \in {"stream_error", "write_error"} -> "partial"
      [] r.kind = "size_mismatch" -> "absent"
      [] OTHER -> "complete"

\* exceptions=(RequestException, IOError, OSError); HTTPError is a
\* RequestException, DownloadError is not.
Retried(exc) == exc \in {"RequestException", "HTTPError", "OSError"}

\* retry_with_backoff's except clause: count the failure, then raise when
\* the count reached max_retries, else sleep and go round again.
RetryDecision(exc, n) ==
    IF Retried(exc) /\ n + 1 < MAX_RETRIES THEN "sleep" ELSE "raise"

\* download_pdf's handlers: a permanent status and every non-HTTP exception
\* become None, any other HTTP status is raised again.
DownloadPdfExcept(exc, status) ==
    IF exc = "HTTPError" /\ status \notin PermanentStatuses
    THEN Raises("HTTPError")
    ELSE Returned("None")

\* update_performance_metrics(failed_files=1) and friends.
AddMetric(m, key) == [m EXCEPT ![key] = @ + 1]

(***************************************************************************)
(* _convert_markdown_to_json.  A Markdown file is absent, not decodable as *)
(* UTF-8, or a sequence of lines; a line is known by its kind:             *)
(*   header  "## Title"     page   "## Page 3"     text  "words"           *)
(*   blank   ""             fence  "```"                                   *)
(* A section's content is the sequence of the numbers of its lines.        *)
(***************************************************************************)
LineKinds == {"header", "page", "text", "blank", "fence"}

SeqsUpTo(S, n) == UNION { [1..k -> S] : k \in 0..n }

MdFiles ==
    {[state |-> "undecodable", lines |-> <<>>]}
        \cup {[state |-> "text", lines |-> l] : l \in SeqsUpTo(LineKinds, MaxLines)}

\* "not markdown_content or len(markdown_content.strip()) == 0"
IsBlankContent(lines) == \A i \in 1..Len(lines) : lines[i] = "blank"

NoSection == [title |-> "", level |-> 0, content |-> <<>>]

HeaderLevel(l) == 2

HeaderTitle(l) == IF l = "page" THEN "Page 3" ELSE "Title"

\* "if current_section['title'] and current_section['content']"
Filled(sec) == sec.title # "" /\ sec.content # <<>>

\* One round of "for line in lines".
FeedLine(st, i, l) ==
    IF l = "fence"
    THEN [st EXCEPT !.code_block_markers = @ + 1,
                    !.in_content_block = ((st.code_block_markers + 1) % 2 = 1),
                    !.current.content =
                        IF st.current.title # "" THEN Append(@, i) ELSE @]
    ELSE IF st.in_content_block
    THEN [st EXCEPT !.current.content =
                        IF st.current.title # "" THEN Append(@, i) ELSE @]
    ELSE IF l \in {"header", "page"}
    THEN [st EXCEPT !.sections = IF Filled(st.current) THEN Append(@, st.current) ELSE @,
                    !.current = [title |-> HeaderTitle(l), level |-> HeaderLevel(l),
                                 content |-> <<>>]]
    ELSE IF l = "text"
    THEN IF st.current.title # ""
         THEN [st EXCEPT !.current.content = Append(@, i)]
         ELSE IF st.sections = <<>>
         THEN [st EXCEPT !.current = [title |-> "Document Content", level |-> 1,
                                      content |-> <<i>>]]
         ELSE st
    ELSE IF Filled(st.current)
         THEN [st EXCEPT !.current.content = Append(@, i)]
         ELSE st

RECURSIVE WalkLines(_, _, _)
WalkLines(st, lines, i) ==
    IF i > Len(lines) THEN st
    ELSE WalkLines(FeedLine(st, i, lines[i]), lines, i + 1)

\* The section walk, the last section, and the one-section fallback.
ExtractSections(lines) ==
    LET st == WalkLines([sections |-> <<>>, current |-> NoSection,
                         in_content_block |-> FALSE, code_block_markers |-> 0],
                        lines, 1)
        found == IF Filled(st.current) THEN Append(st.sections, st.current)
                 ELSE st.sections
    IN  IF found = <<>>
        THEN << [title |-> "Document Content", level |-> 1,
                 content |-> [i \in 1..Len(lines) |-> i]] >>
        ELSE found

JsonRecord(note, secs, text) ==
    [kind |-> "returned", value |-> "record", exc |-> "", note |-> note,
     sections |-> secs, fullText |-> text]

JsonRaised(e) ==
    [kind |-> "raised", value |-> "", exc |-> e, note |-> "", sections |-> <<>>,
     fullText |-> <<>>]

\* The "except Exception" of _convert_markdown_to_json: it logs
\* traceback.format_exc() before it builds the error record.
MapperExcept ==
    IF ImportsTraceback("conversion_utils")
    THEN JsonRecord("error", <<>>, <<>>)
    ELSE JsonRaised("NameError")

\* The try body: read the file, the empty-file record, the section walk.
ConvertMarkdownToJson(md) ==
    IF md.state # "text" THEN MapperExcept
    ELSE IF IsBlankContent(md.lines) THEN JsonRecord("warning", <<>>, <<>>)
    ELSE JsonRecord("", ExtractSections(md.lines), md.lines)

(***************************************************************************)
(* convert_to_markdown_or_json: an output file that exists is read back,   *)
(* else the conversion runs and its output is written; every exception     *)
(* becomes (None, None).                                                   *)
(***************************************************************************)
\* _convert_pdf_to_markdown always returns text with something in it.
Producible(md) == md.state = "text" /\ ~IsBlankContent(md.lines)

\* pdf_to_markdown: md is the Markdown file after the call, existing says it
\* was there before, ok that conversion and write went through.
PdfToMarkdownReturn(md, existing, ok) ==
    IF existing
    THEN IF md.state = "text" THEN Returned("path") ELSE Returned("None")
    ELSE IF ok THEN Returned("path") ELSE Returned("None")

\* markdown_to_json: existing is the JSON file found ("absent", "valid",
\* "invalid"), ok that the write went through.  The mapper runs only when
\* there is no JSON file yet.
MapperReturn(md, existing) ==
    IF existing = "absent" THEN ConvertMarkdownToJson(md) ELSE JsonRunning

MarkdownToJsonReturn(md, existing, ok) ==
    CASE existing = "valid" -> Returned("path")
      [] existing = "invalid" -> Returned("None")
      [] OTHER -> IF MapperReturn(md, existing).kind = "returned" /\ ok
                  THEN Returned("path") ELSE Returned("None")

(***************************************************************************)
(* process_file.                                                           *)
(***************************************************************************)
\* The "except Exception" of process_file: it logs traceback.format_exc()
\* before it counts the failure and returns False.
ProcessFileExcept ==
    IF ImportsTraceback("batch_utils") THEN Returned("False") ELSE Raises("NameError")

SaveFileStates == {"absent", "empty", "partial", "complete"}

\* Lines 42-56: the processed_files counter, then PerformanceMetrics()
\* outside the try block; only its ImportError is caught.
ProcessFileBegin ==
    /\ fpc \in {"idle", "done"}
    /\ pf_calls < MaxCalls
    /\ pf_calls' = pf_calls + 1
    /\ performance_metrics' = AddMetric(performance_metrics, "processed_files")
    /\ \E on_disk \in SaveFileStates, monitoring \in {"off", "ok", "ImportError", "OSError"} :
          /\ save_file' = on_disk
          /\ IF monitoring = "OSError"
             THEN pf_result' = Raises("OSError") /\ fpc' = "done"
             ELSE pf_result' = Running /\ fpc' = "download_pdf"
    /\ retry' = 0
    /\ delay' = INITIAL_DELAY
    /\ responses' = <<>>
    /\ sleeps' = <<>>
    /\ pdf_path' = Running
    /\ markdown_path' = Running
    /\ markdown_file' = NoFile
    /\ json_content' = JsonRunning
    /\ json_path' = Running
    /\ UNCHANGED nonFileVars

\* download_pdf up to the call of download_file: the directories, then the
\* file already at save_path (kept when it has any bytes, removed when empty).
DownloadPdfBegin ==
    /\ fpc = "download_pdf"
    /\ \E makedirs \in {"ok", "OSError"} :
          IF makedirs = "OSError"
          THEN /\ pdf_path' = DownloadPdfExcept("OSError", 0)
               /\ performance_metrics' = AddMetric(performance_metrics, "failed_files")
               /\ fpc' = "downloaded"
               /\ UNCHANGED <<save_file, retry, delay>>
          ELSE IF save_file \in {"partial", "complete"}
          THEN /\ pdf_path' = Returned("path")
               /\ fpc' = "downloaded"
               /\ UNCHANGED <<save_file, retry, delay, performance_metrics>>
          ELSE /\ save_file' = "absent"
               /\ retry' = 0
               /\ delay' = INITIAL_DELAY
               /\ fpc' = "download_file"
               /\ UNCHANGED <<pdf_path, performance_metrics>>
    /\ UNCHANGED <<pf_calls, responses, sleeps, markdown_path, markdown_file,
                   json_content, json_path, pf_result>>
    /\ UNCHANGED nonFileVars

\* One round of retry_with_backoff's loop around download_file: the request,
\* then return, sleep and go round again, or raise into download_pdf.
DownloadAttempt ==
    /\ fpc = "download_file"
    /\ \E r \in Responses :
          LET exc == DownloadFile(r) IN
          /\ responses' = Append(responses, r)
          /\ save_file' = SaveFileAfter(save_file, r)
          /\ IF exc = "returned"
             THEN /\ pdf_path' = Returned("path")
                  /\ fpc' = "downloaded"
                  /\ UNCHANGED <<retry, delay, sleeps, performance_metrics>>
             ELSE IF RetryDecision(exc, retry) = "sleep"
             THEN /\ retry' = retry + 1
                  /\ sleeps' = Append(sleeps, delay)
                  /\ delay' = delay * BACKOFF_FACTOR
                  /\ UNCHANGED <<fpc, pdf_path, performance_metrics>>
             ELSE /\ retry' = IF Retried(exc) THEN retry + 1 ELSE retry
                  /\ pdf_path' = DownloadPdfExcept(exc, r.status)
                  /\ performance_metrics' =
                         IF DownloadPdfExcept(exc, r.status).kind = "returned"
                         THEN AddMetric(performance_metrics, "failed_files")
                         ELSE performance_metrics
                  /\ fpc' = "downloaded"
                  /\ UNCHANGED <<delay, sleeps>>
    /\ UNCHANGED <<pf_calls, markdown_path, markdown_file, json_content, json_path,
                   pf_result>>
    /\ UNCHANGED nonFileVars

\* Lines 60-64 and 101-106: what process_file does with download_pdf's result.
ProcessFileDownloaded ==
    /\ fpc = "downloaded"
    /\ CASE pdf_path.kind = "raised" ->
                /\ pf_result' = ProcessFileExcept
                /\ performance_metrics' =
                       IF ProcessFileExcept.kind = "returned"
                       THEN AddMetric(performance_metrics, "failed_files")
                       ELSE performance_metrics
                /\ fpc' = "done"
         [] pdf_path.kind = "returned" /\ pdf_path.value = "None" ->
                /\ pf_result' = Returned("False")
                /\ performance_metrics' = AddMetric(performance_metrics, "failed_files")
                /\ fpc' = "done"
         [] OTHER ->
                /\ fpc' = "convert"
                /\ UNCHANGED <<pf_result, performance_metrics>>
    /\ UNCHANGED <<pf_calls, save_file, retry, delay, responses, sleeps, pdf_path,
                   markdown_path, markdown_file, json_content, json_path>>
    /\ UNCHANGED nonFileVars

\* Lines 66-71.
PdfToMarkdown ==
    /\ fpc = "convert"
    /\ \E md \in MdFiles, existing \in BOOLEAN, ok \in BOOLEAN :
          /\ existing \/ Producible(md)
          /\ markdown_path' = PdfToMarkdownReturn(md, existing, ok)
          /\ markdown_file' = IF existing \/ ok THEN md ELSE NoFile
          /\ IF PdfToMarkdownReturn(md, existing, ok).value = "None"
             THEN /\ pf_result' = Returned("False")
                  /\ performance_metrics' = AddMetric(performance_metrics, "failed_files")
                  /\ fpc' = "done"
             ELSE /\ fpc' = "map"
                  /\ UNCHANGED <<pf_result, performance_metrics>>
    /\ UNCHANGED <<pf_calls, save_file, retry, delay, responses, sleeps, pdf_path,
                   json_content, json_path>>
    /\ UNCHANGED nonFileVars

\* Lines 73-78.
MarkdownToJson ==
    /\ fpc = "map"
    /\ \E existing \in {"absent", "valid", "invalid"}, ok \in BOOLEAN :
          /\ json_content' = MapperReturn(markdown_file, existing)
          /\ json_path' = MarkdownToJsonReturn(markdown_file, existing, ok)
          /\ IF MarkdownToJsonReturn(markdown_file, existing, ok).value = "None"
             THEN /\ pf_result' = Returned("False")
                  /\ performance_metrics' = AddMetric(performance_metrics, "failed_files")
                  /\ fpc' = "done"
             ELSE /\ fpc' = "store"
                  /\ UNCHANGED <<pf_result, performance_metrics>>
    /\ UNCHANGED <<pf_calls, save_file, retry, delay, responses, sleeps, pdf_path,
                   markdown_path, markdown_file>>
    /\ UNCHANGED nonFileVars

\* Lines 80-99: a failed store is only a warning.
StoreJsonData ==
    /\ fpc = "store"
    /\ \E stored \in BOOLEAN : pf_result' = Returned("True")
    /\ performance_metrics' = AddMetric(performance_metrics, "successful_files")
    /\ fpc' = "done"
    /\ UNCHANGED <<pf_calls, save_file, retry, delay, responses, sleeps, pdf_path,
                   markdown_path, markdown_file, json_content, json_path>>
    /\ UNCHANGED nonFileVars

\* markdown_to_json called on its own (it is exported by src.utils), first
\* thing in a process, with the path of any file, present or not.
MarkdownToJsonCall ==
    /\ fpc = "idle"
    /\ pf_calls < MaxCalls
    /\ pf_calls' = pf_calls + 1
    /\ \E md \in MdFiles \cup {NoFile}, existing \in {"absent", "valid", "invalid"},
          ok \in BOOLEAN :
          /\ markdown_file' = md
          /\ json_content' = MapperReturn(md, existing)
          /\ json_path' = MarkdownToJsonReturn(md, existing, ok)
    /\ fpc' = "done"
    /\ save_file' = "absent"
    /\ retry' = 0
    /\ delay' = INITIAL_DELAY
    /\ responses' = <<>>
    /\ sleeps' = <<>>
    /\ pdf_path' = Running
    /\ markdown_path' = Running
    /\ pf_result' = Running
    /\ UNCHANGED performance_metrics
    /\ UNCHANGED nonFileVars

FileInit == ConvIdle /\ FileIdle /\ OrchIdle("idle") /\ ToolsIdle

FileNext ==
    \/ ProcessFileBegin
    \/ DownloadPdfBegin
    \/ DownloadAttempt
    \/ ProcessFileDownloaded
    \/ PdfToMarkdown
    \/ MarkdownToJson
    \/ StoreJsonData
    \/ MarkdownToJsonCall

SpecFile == FileInit /\ [][FileNext]_vars

(***************************************************************************)
(* Claims about process_file, the download and the mapper (SpecFile).      *)
(***************************************************************************)
DownloadPdfFinished == pdf_path.kind # "running"

\* A step of the current process_file call failed.
StepFailed ==
    \/ pdf_path.kind = "raised"
    \/ pdf_path = Returned("None")
    \/ markdown_path = Returned("None")
    \/ json_path = Returned("None")

\* C2 (as claimed): process_file never raises; on any download, conversion
\* or mapping failure it returns False.
C2_ProcessFileReturnsFalseOnFailure ==
    (fpc = "done" /\ DownloadPdfFinished) =>
        /\ pf_result.kind = "returned"
        /\ StepFailed => pf_result.value = "False"

\* Every request of this download was answered 401, 403 or 404.
PermanentlyRefused ==
    /\ Len(responses) > 0
    /\ \A i \in 1..Len(responses) :
          responses[i].kind = "http_error" /\ responses[i].status \in PermanentStatuses

\* C5 (as claimed): when the server answers 401, 403 or 404, exactly one
\* request is made, there is no retry and no backoff sleep, and download_pdf
\* returns no path.
C5_PermanentStatusNotRetried ==
    (DownloadPdfFinished /\ PermanentlyRefused) =>
        /\ Len(responses) = 1
        /\ sleeps = <<>>
        /\ pdf_path = Returned("None")

\* C10 (as claimed): _convert_markdown_to_json never raises; on an internal
\* failure it returns a record whose metadata carries the error, with no
\* sections and an empty fullText.
C10_MapperReturnsErrorRecord ==
    json_content.kind # "running" =>
        /\ json_content.kind = "returned"
        /\ markdown_file.state # "text" =>
              /\ json_content.note = "error"
              /\ json_content.sections = <<>>
              /\ json_content.fullText = <<>>

\* C26: whenever download_pdf returns a path, the file at that path is the
\* whole body of a successful download: a file that an interrupted or failed
\* attempt left at save_path, in this call or an earlier one, is not returned.
C26_ReturnedFileIsWholeDownload ==
    pdf_path = Returned("path") => save_file = "complete"

\* C30: after any sequence of process_file calls has returned, the global
\* counters satisfy processed_files = successful_files + failed_files.
C30_ProcessedIsSuccessfulPlusFailed ==
    (fpc = "done" /\ pf_result.kind = "returned") =>
        performance_metrics.processed_files =
            performance_metrics.successful_files + performance_metrics.failed_files

(***************************************************************************)
(* LargeScaleProcessor (src/optimization.py): process_urls on the main     *)
(* thread, _process_file_wrapper on the pool's threads, the checkpoint     *)
(* file on disk, and the process being killed and started again.           *)
(***************************************************************************)
\* What process_file can hand to its caller: True, False, or an exception
\* (the one its own handler raises, or PerformanceMetrics() failing).
ProcessFileOutcomes ==
    {Returned("True"), Returned("False"), ProcessFileExcept, Raises("OSError")}

FreshStatus(urls) == [u \in URLS |-> IF u \in urls THEN "pending" ELSE "absent"]

Checkpoint(us, st) == [present |-> TRUE, url_status |-> us, processing_stats |-> st]

WithStatus(us, status) == {u \in URLS : us[u] = status}

\* should_checkpoint: the count since the last checkpoint, or the clock
\* (time_up says that CHECKPOINT_TIME seconds have gone by).
ShouldCheckpoint(n, time_up) == n >= CHECKPOINT_INTERVAL \/ time_up

\* The status _process_file_wrapper records for process_file's outcome.
WrapperStatus(outcome) ==
    IF outcome.kind = "raised" THEN "error"
    ELSE IF outcome.value = "True" THEN "completed" ELSE "failed"

\* The processing_stats after the wrapper's bookkeeping.
WrapperStats(st, outcome) ==
    IF outcome.kind = "raised"
    THEN [st EXCEPT !.failed_files = @ + 1, !.in_progress_files = @ - 1]
    ELSE IF outcome.value = "True"
    THEN [st EXCEPT !.processed_files = @ + 1, !.in_progress_files = @ - 1,
                    !.successful_files = @ + 1]
    ELSE [st EXCEPT !.processed_files = @ + 1, !.in_progress_files = @ - 1,
                    !.failed_files = @ + 1]

\* resume_from_checkpoint: the counters it takes over from the checkpoint.
RestoredStats(st) == [st EXCEPT !.in_progress_files = 0]

\* LargeScaleProcessor() and process_urls(urls, resume) up to the loop: the
\* status map is restored from the checkpoint or set to pending, and the
\* queue takes the URLs whose status is "pending".
ProcessUrls ==
    /\ opc = "stopped"
    /\ runs < MaxRuns
    /\ runs' = runs + 1
    /\ \E urls \in (SUBSET URLS) \ {{}}, resume \in BOOLEAN :
          LET restore == resume /\ checkpoint_file.present
              us == IF restore THEN checkpoint_file.url_status ELSE FreshStatus(urls)
          IN  /\ worklist' = urls
              /\ resumed' = restore
              /\ restored' = us
              /\ url_status' = us
              /\ url_queue' = WithStatus(us, "pending")
              /\ processing_stats' =
                     IF restore THEN RestoredStats(checkpoint_file.processing_stats)
                     ELSE [ZeroStats EXCEPT !.total_files = Cardinality(urls)]
    /\ opc' = "loop"
    /\ active_futures' = {}
    /\ max_concurrent' = INITIAL_WORKERS
    /\ worker' = [u \in URLS |-> "none"]
    /\ processed_since_checkpoint' = 0
    /\ consecutive_errors' = 0
    /\ pause_event' = TRUE
    /\ timers' = 0
    /\ started' = {}
    /\ written' = FALSE
    /\ UNCHANGED <<checkpoint_file, killed, main_snapshot>>
    /\ UNCHANGED nonOrchVars

\* The main thread is inside thread_pool.submit, past pause_event.wait().
Submitting == \E u \in URLS : worker[u] = "admitted"

\* Lines 576-579 and 188: the submit loop takes the next URL and
\* thread_pool.submit's pause_event.wait() returns.
SubmitWait(u) ==
    /\ opc = "loop"
    /\ ~Submitting
    /\ u \in url_queue
    /\ Cardinality(active_futures) < max_concurrent
    /\ pause_event
    /\ url_queue' = url_queue \ {u}
    /\ worker' = [worker EXCEPT ![u] = "admitted"]
    /\ UNCHANGED <<opc, runs, worklist, url_status, active_futures, max_concurrent,
                   checkpoint_file, processed_since_checkpoint, processing_stats,
                   consecutive_errors, pause_event, timers, resumed, restored, started,
                   killed, main_snapshot, written>>
    /\ UNCHANGED nonOrchVars

\* Lines 190-196 and 580-581: after time.sleep(self.rate_limit) the task is
\* handed to the executor.
SubmitHandoff(u) ==
    /\ opc = "loop"
    /\ worker[u] = "admitted"
    /\ active_futures' = active_futures \cup {u}
    /\ worker' = [worker EXCEPT ![u] = "submitted"]
    /\ UNCHANGED <<opc, runs, worklist, url_status, url_queue, max_concurrent,
                   checkpoint_file, processed_since_checkpoint, processing_stats,
                   consecutive_errors, pause_event, timers, resumed, restored, started,
                   killed, main_snapshot, written>>
    /\ UNCHANGED nonOrchVars

\* Lines 583-591: concurrent.futures.wait hands back the futures that are
\* done; it is reached when the submit loop has nothing more to submit.
Reap ==
    /\ opc = "loop"
    /\ ~Submitting
    /\ Cardinality(active_futures) >= max_concurrent \/ url_queue = {}
    /\ \E u \in active_futures : worker[u] = "finished"
    /\ active_futures' = {u \in active_futures : worker[u] # "finished"}
    /\ max_concurrent' = INITIAL_WORKERS
    /\ UNCHANGED <<opc, runs, worklist, url_status, url_queue, worker, checkpoint_file,
                   processed_since_checkpoint, processing_stats, consecutive_errors,
                   pause_event, timers, resumed, restored, started, killed,
                   main_snapshot, written>>
    /\ UNCHANGED nonOrchVars

\* Lines 431-435: the wrapper marks its URL in progress.
WrapperStart(u) ==
    /\ worker[u] = "submitted"
    /\ worker' = [worker EXCEPT ![u] = "running"]
    /\ url_status' = [url_status EXCEPT ![u] = "in_progress"]
    /\ processing_stats' = [processing_stats EXCEPT !.in_progress_files = @ + 1]
    /\ started' = started \cup {u}
    /\ UNCHANGED <<opc, runs, worklist, url_queue, active_futures, max_concurrent,
                   checkpoint_file, processed_since_checkpoint, consecutive_errors,
                   pause_event, timers, resumed, restored, killed, main_snapshot,
                   written>>
    /\ UNCHANGED nonOrchVars

\* Lines 437-484: process_file returns or raises; the status, the counters,
\* the periodic checkpoint (only when process_file returned; saved says the
\* write went through) and the pause after too many errors in a row.
WrapperFinish(u) ==
    /\ worker[u] = "running"
    /\ \E outcome \in ProcessFileOutcomes, time_up \in BOOLEAN, saved \in BOOLEAN :
          LET us == [url_status EXCEPT ![u] = WrapperStatus(outcome)]
              stats == WrapperStats(processing_stats, outcome)
              n == IF outcome.kind = "returned" THEN processed_since_checkpoint + 1
                   ELSE processed_since_checkpoint
              write == outcome.kind = "returned" /\ ShouldCheckpoint(n, time_up) /\ saved
              errs == IF WrapperStatus(outcome) = "completed" THEN 0
                      ELSE consecutive_errors + 1
          IN  /\ url_status' = us
              /\ processing_stats' = stats
              /\ checkpoint_file' = IF write THEN Checkpoint(us, stats) ELSE checkpoint_file
              /\ written' = (written \/ write)
              /\ processed_since_checkpoint' = IF write THEN 0 ELSE n
              /\ IF errs >= MAX_ERRORS_BEFORE_PAUSE
                 THEN /\ pause_event' = FALSE
                      /\ timers' = timers + 1
                      /\ consecutive_errors' = 0
                 ELSE /\ consecutive_errors' = errs
                      /\ UNCHANGED <<pause_event, timers>>
    /\ worker' = [worker EXCEPT ![u] = "finished"]
    /\ UNCHANGED <<opc, runs, worklist, url_queue, active_futures, max_concurrent,
                   resumed, restored, started, killed, main_snapshot>>
    /\ UNCHANGED nonOrchVars

\* threading.Timer(duration, self.resume_processing) goes off.
TimerFires ==
    /\ timers > 0
    /\ timers' = timers - 1
    /\ pause_event' = TRUE
    /\ UNCHANGED <<opc, runs, worklist, url_status, url_queue, active_futures,
                   max_concurrent, worker, checkpoint_file, processed_since_checkpoint,
                   processing_stats, consecutive_errors, resumed, restored, started,
                   killed, main_snapshot, written>>
    /\ UNCHANGED nonOrchVars

\* Lines 614-631: the loop is over, the final checkpoint, the return.
ProcessUrlsReturn ==
    /\ opc = "loop"
    /\ ~Submitting
    /\ url_queue = {}
    /\ active_futures = {}
    /\ \E saved \in BOOLEAN :
          /\ checkpoint_file' = IF saved THEN Checkpoint(url_status, processing_stats)
                                ELSE checkpoint_file
          /\ written' = (written \/ saved)
          /\ processed_since_checkpoint' = IF saved THEN 0 ELSE processed_since_checkpoint
    /\ opc' = "returned"
    /\ UNCHANGED <<runs, worklist, url_status, url_queue, active_futures, max_concurrent,
                   worker, processing_stats, consecutive_errors, pause_event, timers,
                   resumed, restored, started, killed, main_snapshot>>
    /\ UNCHANGED nonOrchVars

\* shutdown() in optimize_full_scale_processing's finally clause: one more
\* checkpoint, then the process ends.
Shutdown ==
    /\ opc = "returned"
    /\ \E saved \in BOOLEAN :
          /\ checkpoint_file' = IF saved THEN Checkpoint(url_status, processing_stats)
                                ELSE checkpoint_file
          /\ written' = (written \/ saved)
          /\ processed_since_checkpoint' = IF saved THEN 0 ELSE processed_since_checkpoint
    /\ opc' = "stopped"
    /\ timers' = 0
    /\ UNCHANGED <<runs, worklist, url_status, url_queue, active_futures, max_concurrent,
                   worker, processing_stats, consecutive_errors, pause_event,
                   resumed, restored, started, killed, main_snapshot>>
    /\ UNCHANGED nonOrchVars

\* A termination signal arrives while process_urls runs: the handler calls
\* shutdown(), whose _create_processing_checkpoint copies the status map
\* and the counters without taking the processor's lock (lines 488-489).
SignalShutdown ==
    /\ opc = "loop"
    /\ main_snapshot' = Checkpoint(url_status, processing_stats)
    /\ opc' = "signalled"
    /\ UNCHANGED <<runs, worklist, url_status, url_queue, active_futures, max_concurrent,
                   worker, checkpoint_file, processed_since_checkpoint, processing_stats,
                   consecutive_errors, pause_event, timers, resumed, restored, started,
                   killed, written>>
    /\ UNCHANGED nonOrchVars

\* create_checkpoint gets the manager's lock and writes what the handler
\* copied; then thread_pool.shutdown() waits for the tasks handed over.
ShutdownWrite ==
    /\ opc = "signalled"
    /\ \E saved \in BOOLEAN :
          /\ checkpoint_file' = IF saved THEN main_snapshot ELSE checkpoint_file
          /\ written' = (written \/ saved)
          /\ processed_since_checkpoint' = IF saved THEN 0 ELSE processed_since_checkpoint
    /\ opc' = "draining"
    /\ main_snapshot' = NoCheckpoint
    /\ UNCHANGED <<runs, worklist, url_status, url_queue, active_futures, max_concurrent,
                   worker, processing_stats, consecutive_errors, pause_event, timers,
                   resumed, restored, started, killed>>
    /\ UNCHANGED nonOrchVars

\* executor.shutdown(wait=True) is through, sys.exit(0): on the way out
\* optimize_full_scale_processing's finally clause calls shutdown() once
\* more (saved is FALSE too when process_urls was called without it).
Exit ==
    /\ opc = "draining"
    /\ \A u \in URLS : worker[u] \notin {"submitted", "running"}
    /\ \E saved \in BOOLEAN :
          /\ checkpoint_file' = IF saved THEN Checkpoint(url_status, processing_stats)
                                ELSE checkpoint_file
          /\ written' = (written \/ saved)
    /\ opc' = "stopped"
    /\ url_status' = [u \in URLS |-> "absent"]
    /\ url_queue' = {}
    /\ active_futures' = {}
    /\ worker' = [u \in URLS |-> "none"]
    /\ processing_stats' = ZeroStats
    /\ processed_since_checkpoint' = 0
    /\ consecutive_errors' = 0
    /\ pause_event' = TRUE
    /\ timers' = 0
    /\ UNCHANGED <<runs, worklist, max_concurrent, resumed, restored, started, killed,
                   main_snapshot>>
    /\ UNCHANGED nonOrchVars

\* The process is killed: memory is gone, the checkpoint file stays.
Crash ==
    /\ opc = "loop"
    /\ runs < MaxRuns
    /\ opc' = "stopped"
    /\ killed' = worklist
    /\ url_status' = [u \in URLS |-> "absent"]
    /\ url_queue' = {}
    /\ active_futures' = {}
    /\ worker' = [u \in URLS |-> "none"]
    /\ processing_stats' = ZeroStats
    /\ processed_since_checkpoint' = 0
    /\ consecutive_errors' = 0
    /\ pause_event' = TRUE
    /\ timers' = 0
    /\ main_snapshot' = NoCheckpoint
    /\ UNCHANGED <<runs, worklist, max_concurrent, checkpoint_file, resumed, restored,
                   started, written>>
    /\ UNCHANGED nonOrchVars

OrchInit ==
    /\ ConvIdle
    /\ FileIdle
    /\ OrchIdle("stopped")
    /\ ToolsIdle

OrchNext ==
    \/ ProcessUrls
    \/ \E u \in URLS : SubmitWait(u)
    \/ \E u \in URLS : SubmitHandoff(u)
    \/ Reap
    \/ \E u \in URLS : WrapperStart(u)
    \/ \E u \in URLS : WrapperFinish(u)
    \/ TimerFires
    \/ ProcessUrlsReturn
    \/ Shutdown
    \/ SignalShutdown
    \/ ShutdownWrite
    \/ Exit
    \/ Crash

SpecOrch == OrchInit /\ [][OrchNext]_vars

(***************************************************************************)
(* Claims about the orchestrator (checked under SpecOrch).                 *)
(***************************************************************************)
AllowedChange(a, b) ==
    <<a, b>> \in {<<"pending", "in_progress">>, <<"in_progress", "completed">>,
                  <<"in_progress", "failed">>}

\* C3 (as claimed): while process_urls runs, every change of a URL's status
\* is Pending to InProgress, InProgress to Completed or InProgress to Failed
\* (so a Completed or Failed URL never changes again).
C3_StatusTransitions ==
    [][ (opc = "loop" /\ opc' \in {"loop", "returned"}) =>
            \A u \in URLS :
                url_status'[u] # url_status[u] =>
                    AllowedChange(url_status[u], url_status'[u]) ]_vars

\* C4 (as claimed): after a crash and a resume, with the same worklist, from
\* the latest checkpoint,
\* every URL of the worklist that the checkpoint holds as Pending or
\* InProgress, or does not hold at all, is processed again, and when
\* process_urls returns no URL of the worklist is Pending or InProgress.
C4_UnfinishedReprocessedOnResume ==
    (opc = "returned" /\ killed = worklist /\ resumed) =>
        \A u \in worklist :
            /\ url_status[u] \notin {"pending", "in_progress"}
            /\ restored[u] \in {"pending", "in_progress", "absent"} => u \in started

\* A task is handed to the executor in this step.
Dispatch == \E u \in URLS : worker[u] = "admitted" /\ worker'[u] = "submitted"

\* The process goes on through this step (it is neither killed nor exits).
ProcessGoesOn == runs' = runs /\ opc' # "stopped"

\* C18: MAX_ERRORS_BEFORE_PAUSE failures in a row pause the pool and reset
\* the counter, and no task is dispatched while the PAUSE_DURATION of any
\* pause is still running (its timer has not gone off).
C18_NoDispatchBeforePauseElapsed ==
    /\ [](consecutive_errors < MAX_ERRORS_BEFORE_PAUSE)
    /\ [][ (consecutive_errors' = 0 /\ consecutive_errors + 1 >= MAX_ERRORS_BEFORE_PAUSE
              /\ \E u \in URLS : worker[u] = "running" /\ worker'[u] = "finished"
                                 /\ url_status'[u] # "completed")
           => (~pause_event' /\ timers' = timers + 1) ]_vars
    /\ [][ Dispatch => timers = 0 ]_vars

\* C19: while the pool is paused (pause_event is clear) no task is handed to
\* the executor, and a task that is running stays running or finishes.
C19_PauseGatesDispatchOnly ==
    /\ [][ Dispatch => pause_event ]_vars
    /\ [][ (~pause_event /\ ProcessGoesOn) =>
              \A u \in URLS : worker[u] = "running" =>
                                 worker'[u] \in {"running", "finished"} ]_vars

\* The URLs a checkpoint records as completed or failed.
Finished(cp) == {u \in URLS : cp.url_status[u] \in {"completed", "failed"}}

\* C20: within one run, each checkpoint written records every completed or
\* failed URL that the checkpoint written before it records.
C20_CheckpointsOnlyGrow ==
    [][ (written /\ written' /\ checkpoint_file' # checkpoint_file) =>
           \A u \in Finished(checkpoint_file) :
               checkpoint_file'.url_status[u] = checkpoint_file.url_status[u] ]_vars

\* An item finishes: its wrapper goes from running to finished.
ItemFinishes(u) == worker[u] = "running" /\ worker'[u] = "finished"

\* C22: when an item finishes (process_file returned True, returned False or
\* raised) and with it CHECKPOINT_INTERVAL items have finished since the last
\* checkpoint, the checkpoint of the new status map is on disk when the
\* item's worker returns; or its write was made and failed, which leaves the
\* item counted and the count not reset.
C22_CheckpointWhenIntervalReached ==
    [][ \A u \in URLS :
           (ItemFinishes(u) /\ processed_since_checkpoint + 1 >= CHECKPOINT_INTERVAL)
              => \/ /\ checkpoint_file' = Checkpoint(url_status', processing_stats')
                    /\ processed_since_checkpoint' = 0
                 \/ processed_since_checkpoint' = processed_since_checkpoint + 1 ]_vars

(***************************************************************************)
(* SpecMapper: _convert_markdown_to_json applied to one Markdown file      *)
(* (src/utils/conversion_utils.py), on texts longer than the ones          *)
(* process_file is run on.                                                 *)
(***************************************************************************)
MaxMapperLines == 3        \* lines of a Markdown file given to the mapper alone

MapperFiles ==
    {NoFile, [state |-> "undecodable", lines |-> <<>>]}
        \cup {[state |-> "text", lines |-> l] : l \in SeqsUpTo(LineKinds, MaxMapperLines)}

ConvertMarkdownToJsonCall ==
    /\ fpc = "idle"
    /\ \E md \in MapperFiles :
         /\ markdown_file' = md
         /\ json_content' = ConvertMarkdownToJson(md)
    /\ fpc' = "done"
    /\ UNCHANGED <<pf_calls, save_file, retry, delay, responses, sleeps, pdf_path,
                   markdown_path, json_path, pf_result, performance_metrics>>
    /\ UNCHANGED nonFileVars

MapperInit == FileInit

MapperNext == ConvertMarkdownToJsonCall

SpecMapper == MapperInit /\ [][MapperNext]_vars

\* The lines the record's sections hold.
LinesInSections(secs) ==
    UNION { {secs[k].content[j] : j \in 1..Len(secs[k].content)} : k \in 1..Len(secs) }

\* The mapper made a record out of a text with something in it.
MappedText == json_content.kind = "returned" /\ json_content.note = ""

\* C16: every line of the Markdown text that is neither blank nor a section
\* header is in the content of some section of the mapper's record.
C16_EveryContentLineInSomeSection ==
    MappedText =>
        \A i \in 1..Len(markdown_file.lines) :
            markdown_file.lines[i] \in {"text", "fence"} =>
                i \in LinesInSections(json_content.sections)

(***************************************************************************)
(* SpecDoc: detect_document_format and repair_document                     *)
(* (src/utils/pdf_utils.py), called one after the other by                 *)
(* _convert_pdf_to_markdown (src/utils/conversion_utils.py) or on their    *)
(* own.                                                                    *)
(***************************************************************************)
MaxDocPages == 2           \* pages of a document given to the detector

DETECT_SAMPLE_PAGES == 5   \* pages_to_check = min(5, page_count)
SMALL_FONT_HITS == 2       \* a page with some unusual font references
MANY_FONT_HITS == 4        \* a page with more than UNUSUAL_FONTS_LIMIT of them
UNUSUAL_FONTS_LIMIT == 3   \* if unusual_fonts > 3

FontHits == {-1, 0, SMALL_FONT_HITS, MANY_FONT_HITS}

DocPages == [text : BOOLEAN, images : BOOLEAN, rotated : BOOLEAN, fonts : FontHits]

EncryptionCases == {<<FALSE, "ok">>, <<TRUE, "ok">>, <<TRUE, "fail">>, <<TRUE, "raise">>}

\* A field no line of the code can read for the document at hand is held at
\* one value.
Documents ==
    {NoDocument}
    \cup { Document(TRUE, "error", FALSE, FALSE, "ok", FALSE, <<>>) }
    \cup { Document(TRUE, s, FALSE, FALSE, "ok", FALSE, <<>>) : s \in {"tiny", "normal"} }
    \cup { Document(TRUE, s, TRUE, e[1], e[2], TRUE, <<>>) :
             s \in {"tiny", "normal"}, e \in EncryptionCases }
    \cup { Document(TRUE, s, TRUE, e[1], e[2], FALSE, pg) :
             s \in {"tiny", "normal"}, e \in EncryptionCases,
             pg \in SeqsUpTo(DocPages, MaxDocPages) }

\* The detector's OCR rule on the sampled pages (text_content, image_content).
DetectorNeedsOcr(text_content, image_content) ==
    \/ (text_content = 0 /\ image_content > 0)
    \/ text_content < image_content

NewReport == Report("dict", FALSE, FALSE, "None", "standard")

\* if file_size_mb < 0.01 and file_size_mb > 0
AfterSizeCheck(r, d) ==
    IF d.size = "tiny"
    THEN [r EXCEPT !.is_rare_format = TRUE, !.rare_format_type = "potentially_empty",
                   !.processing_strategy = "cautious"]
    ELSE r

\* if doc.is_encrypted: ... doc.authenticate("")
AfterEncryptionCheck(r, d) ==
    IF ~d.encrypted THEN r
    ELSE LET e == [r EXCEPT !.is_rare_format = TRUE, !.rare_format_type = "encrypted",
                            !.processing_strategy = "decrypt_first"]
         IN  IF d.auth = "ok"
             THEN [e EXCEPT !.is_rare_format = FALSE, !.processing_strategy = "standard"]
             ELSE [e EXCEPT !.needs_ocr = TRUE]

\* if page_count == 0
AfterPageCount(r, d) ==
    IF Len(d.pages) = 0
    THEN [r EXCEPT !.is_rare_format = TRUE, !.rare_format_type = "empty_document",
                   !.processing_strategy = "cautious", !.needs_ocr = FALSE]
    ELSE r

PagesToCheck(d) == Min(DETECT_SAMPLE_PAGES, Len(d.pages))

TextContent(d) == Cardinality({i \in 1..PagesToCheck(d) : d.pages[i].text})

ImageContent(d) == Cardinality({i \in 1..PagesToCheck(d) : d.pages[i].images})

UnusualRotations(d) == Cardinality({i \in 1..PagesToCheck(d) : d.pages[i].rotated})

RECURSIVE UnusualFontsUpTo(_, _)
UnusualFontsUpTo(d, n) ==
    IF n = 0 THEN 0
    ELSE UnusualFontsUpTo(d, n - 1)
         + (IF d.pages[n].fonts < 0 THEN 0 ELSE d.pages[n].fonts)

UnusualFonts(d) == UnusualFontsUpTo(d, PagesToCheck(d))

AfterOcrDecision(r, d) ==
    IF DetectorNeedsOcr(TextContent(d), ImageContent(d))
    THEN [r EXCEPT !.needs_ocr = TRUE]
    ELSE r

\* if unusual_rotations > pages_to_check / 2
AfterRotationCheck(r, d) ==
    IF UnusualRotations(d) > 0 /\ 2 * UnusualRotations(d) > PagesToCheck(d)
    THEN [r EXCEPT !.is_rare_format = TRUE, !.rare_format_type = "unusual_rotation",
                   !.processing_strategy = "normalize_pages"]
    ELSE r

AfterFontCheck(r, d) ==
    IF UnusualFonts(d) > UNUSUAL_FONTS_LIMIT
    THEN [r EXCEPT !.is_rare_format = TRUE, !.rare_format_type = "unusual_fonts",
                   !.processing_strategy = "careful_extraction"]
    ELSE r

\* The try body raises: getsize, fitz.open, len(doc) or a page read.
AnalysisFails(d) == d.size = "error" \/ ~d.opens \/ d.reads_raise

\* The dict of the except branch: no rare_format_type key.
AnalysisErrorReport == Report("dict", TRUE, FALSE, "absent", "cautious")

\* The dict returned without PyMuPDF: neither type nor strategy.
NoPymupdfReport == Report("dict", TRUE, FALSE, "absent", "absent")

AsBool(r) == Report("bool", r.needs_ocr, FALSE, "absent", "absent")

DetectDocumentFormat(d, include_details) ==
    LET r == IF ~d.has_pymupdf THEN NoPymupdfReport
             ELSE IF AnalysisFails(d) THEN AnalysisErrorReport
             ELSE AfterFontCheck(AfterRotationCheck(AfterOcrDecision(
                      AfterPageCount(AfterEncryptionCheck(
                          AfterSizeCheck(NewReport, d), d), d), d), d), d)
    IN  IF include_details THEN r ELSE AsBool(r)

\* repair_document.  save and verify are what doc.save and the re-opening of
\* the saved file do: "ok" or "raise".
RepairDocument(d, save, verify) ==
    IF ~d.has_pymupdf THEN Repair("None", "never", -1)
    ELSE IF d.size = "error" \/ ~d.opens THEN Repair("None", "dir", -1)
    ELSE IF d.encrypted /\ d.auth # "ok" THEN Repair("None", "dir", -1)
    ELSE IF save = "raise" THEN Repair("None", "dir", -1)
    ELSE IF verify = "raise" THEN Repair("None", "dir_file", -1)
    ELSE IF Len(d.pages) > 0 THEN Repair("path", "dir_file", Len(d.pages))
    ELSE Repair("None", "removed", 0)

\* _convert_pdf_to_markdown repairs a rare-format document under these
\* strategies.
RepairStrategies == {"deep_repair", "cautious", "decrypt_first", "normalize_pages"}

CallerRepairs(r) ==
    r.kind = "dict" /\ r.is_rare_format /\ r.processing_strategy \in RepairStrategies

LibraryOutcomes == {"ok", "raise"}

Detect ==
    /\ dpc = "idle"
    /\ \E d \in Documents, include_details \in BOOLEAN :
         /\ doc' = d
         /\ report' = DetectDocumentFormat(d, include_details)
    /\ dpc' = "detected"
    /\ UNCHANGED repaired
    /\ UNCHANGED nonDocVars

RepairAfterDetect ==
    /\ dpc = "detected"
    /\ CallerRepairs(report)
    /\ \E save \in LibraryOutcomes, verify \in LibraryOutcomes :
         repaired' = RepairDocument(doc, save, verify)
    /\ dpc' = "repaired"
    /\ UNCHANGED <<doc, report>>
    /\ UNCHANGED nonDocVars

RepairCall ==
    /\ dpc = "idle"
    /\ \E d \in Documents, save \in LibraryOutcomes, verify \in LibraryOutcomes :
         /\ doc' = d
         /\ repaired' = RepairDocument(d, save, verify)
    /\ dpc' = "repaired"
    /\ UNCHANGED report
    /\ UNCHANGED nonDocVars

DocInit == ConvIdle /\ FileIdle /\ OrchIdle("idle") /\ ToolsIdle

DocNext ==
    \/ Detect
    \/ RepairAfterDetect
    \/ RepairCall

SpecDoc == DocInit /\ [][DocNext]_vars

(***************************************************************************)
(* Claims about the detector and the repairer                              *)
(***************************************************************************)
Detected == dpc # "idle" /\ report.kind = "dict"

\* C11: detect_document_format never raises, and a report made after the
\* analysis failed internally has rare_format_type analysis_error, the
\* cautious strategy and needs_ocr set.
C11_AnalysisErrorReport ==
    dpc # "idle" /\ report.kind # "none" =>
        /\ report.kind \in {"dict", "bool"}
        /\ (report.kind = "dict" /\ doc.has_pymupdf /\ AnalysisFails(doc)) =>
               /\ report.rare_format_type = "analysis_error"
               /\ report.processing_strategy = "cautious"
               /\ report.needs_ocr

\* C12: in every report, a rare_format_type other than None comes with
\* is_rare_format set.
C12_RareKindImpliesRareFlag ==
    Detected =>
        (report.rare_format_type \notin {"None", "absent"} => report.is_rare_format)

\* C14: repair_document returns a path only when the re-opened file has at
\* least one page, and nothing of its temporary directory remains when it
\* returns None.
C14_RepairLeavesNoTempOnFailure ==
    dpc = "repaired" =>
        /\ repaired.result = "path" => repaired.check_pages >= 1
        /\ repaired.result = "None" => repaired.temp_dir \in {"never", "removed"}

\* The standalone scan detection (_is_likely_scanned) sampled the pages of
\* the file and markdown() took its answer.
ScanSampled ==
    cpc # "start" /\ pdf.exists /\ pdf.pymupdf_available /\ pdf.opens /\ ~pdf.force_ocr

\* C13: on the same numbers of text pages and image pages, the standalone
\* scan detection decides as the detector's rule does.
C13_ScanFallbackAgreesWithDetector ==
    ScanSampled => (needs_ocr = DetectorNeedsOcr(pdf.text_blocks, pdf.image_blocks))

(***************************************************************************)
(* SpecText: post_process_markdown (src/utils/conversion_utils.py).        *)
(* A text is the sequence of its lines (split on "\n"), a line is known by *)
(* what the function's tests can tell apart:                               *)
(*   header  matches ^#+\s           list   matches ^\s*[*-]\s             *)
(*   text    any other line with a character that strip() keeps            *)
(*   blank   the empty line          space  spaces only                    *)
(*   shy     soft hyphens only (strip() keeps them, the OCR fix removes    *)
(*           them)                                                         *)
(***************************************************************************)
MaxTextLines == 4          \* lines of a text given to post_process_markdown

TextLineKinds == {"header", "list", "text", "blank", "space", "shy"}

Texts == UNION { [1..n -> TextLineKinds] : n \in 1..MaxTextLines }

\* line.strip() == ''
StripsToEmpty(l) == l \in {"blank", "space"}

\* not markdown_text or len(markdown_text.strip()) == 0
IsEmptyContent(lines) == \A i \in DOMAIN lines : StripsToEmpty(lines[i])

\* The OCR fixes, line by line: runs of spaces become one space, soft
\* hyphens are removed.
OcrFixed(l) == IF l = "shy" THEN "blank" ELSE l

OcrFixes(lines, ocr) ==
    IF ocr THEN [i \in DOMAIN lines |-> OcrFixed(lines[i])] ELSE lines

StartOfText == [out |-> <<>>, in_list |-> FALSE, prev_was_header |-> FALSE]

\* structured_lines and structured_lines[-1] != ''
LastIsLine(out) == out # <<>> /\ out[Len(out)] # "blank"

\* One iteration of the loop over lines.
StructureLine(st, l) ==
    IF l = "header"
    THEN [out |-> (IF ~st.prev_was_header /\ LastIsLine(st.out)
                   THEN Append(st.out, "blank") ELSE st.out) \o <<l>>,
          in_list |-> FALSE, prev_was_header |-> TRUE]
    ELSE IF l = "list"
    THEN [out |-> Append(st.out, l), in_list |-> TRUE, prev_was_header |-> FALSE]
    ELSE IF st.prev_was_header /\ ~StripsToEmpty(l)
    THEN [out |-> Append(st.out, l), in_list |-> st.in_list, prev_was_header |-> FALSE]
    ELSE IF st.in_list /\ StripsToEmpty(l)
    THEN [out |-> Append(st.out, l), in_list |-> FALSE, prev_was_header |-> FALSE]
    ELSE IF ~st.in_list /\ ~StripsToEmpty(l)
    THEN [out |-> (IF LastIsLine(st.out) /\ ~st.prev_was_header
                   THEN st.out
                   ELSE IF LastIsLine(st.out) THEN Append(st.out, "blank")
                   ELSE st.out) \o <<l>>,
          in_list |-> st.in_list, prev_was_header |-> FALSE]
    ELSE [out |-> Append(st.out, l), in_list |-> st.in_list, prev_was_header |-> FALSE]

RECURSIVE StructureLines(_, _, _)
StructureLines(st, lines, i) ==
    IF i > Len(lines) THEN st.out
    ELSE StructureLines(StructureLine(st, lines[i]), lines, i + 1)

PostProcessMarkdown(lines, ocr) ==
    IF IsEmptyContent(lines) THEN lines
    ELSE StructureLines(StartOfText, OcrFixes(lines, ocr), 1)

PostProcess ==
    /\ tpc = "idle"
    /\ \E lines \in Texts, ocr \in BOOLEAN :
         /\ markdown_in' = lines
         /\ is_ocr' = ocr
         /\ markdown_out' = PostProcessMarkdown(lines, ocr)
    /\ tpc' = "returned"
    /\ UNCHANGED nonTextVars

TextInit == ConvIdle /\ FileIdle /\ OrchIdle("idle") /\ ToolsIdle

TextNext == PostProcess

SpecText == TextInit /\ [][TextNext]_vars

(***************************************************************************)
(* Claims about the post-processor                                         *)
(***************************************************************************)
\* "\n".join(lines) has three newline characters in a row: two empty lines
\* in a row with a line before and a line after them.
HasTripleNewline(lines) ==
    \E j \in 1..(Len(lines) - 3) : lines[j + 1] = "blank" /\ lines[j + 2] = "blank"

\* C15: the text post_process_markdown returns has no run of three or more
\* newline characters, whatever the input and is_ocr.
C15_NoTripleNewline ==
    tpc = "returned" => ~HasTripleNewline(markdown_out)

\* validate_markdown_quality on a text of such lines. The lines stand for
\* "# H", "- x", "x", "", two spaces (one after the OCR fix collapsed them)
\* and one soft hyphen, which is the only character the garbled pattern
\* matches.
HEADER_CHARS == 3
LIST_CHARS == 3
SPACE_CHARS == 2
STRUCTURE_MIN_CHARS == 500
STRUCTURE_MIN_HEADERS == 2

LineChars(l, collapsed) ==
    CASE l = "header" -> HEADER_CHARS
      [] l = "list" -> LIST_CHARS
      [] l = "text" -> 1
      [] l = "blank" -> 0
      [] l = "space" -> IF collapsed THEN 1 ELSE SPACE_CHARS
      [] l = "shy" -> 1

RECURSIVE SumChars(_, _, _)
SumChars(lines, collapsed, i) ==
    IF i > Len(lines) THEN 0
    ELSE LineChars(lines[i], collapsed) + SumChars(lines, collapsed, i + 1)

\* len(markdown_text): the lines and the newlines between them.
TextChars(lines, collapsed) == SumChars(lines, collapsed, 1) + Len(lines) - 1

Count(lines, kinds) == Cardinality({i \in DOMAIN lines : lines[i] \in kinds})

\* The three scores, in tenths, and their sum: 30 times the returned score.
GarbledScore(lines, collapsed) ==
    IF 10 * Count(lines, {"shy"}) > TextChars(lines, collapsed) THEN 3 ELSE 8

StructureScore(lines, collapsed) ==
    IF Count(lines, {"header"}) < STRUCTURE_MIN_HEADERS
       /\ TextChars(lines, collapsed) > STRUCTURE_MIN_CHARS
    THEN 5 ELSE 9

EmptyLinesScore(lines) ==
    IF 10 * Count(lines, {"blank", "space"}) > 4 * Len(lines) THEN 6 ELSE 9

ValidateMarkdownQuality(lines, collapsed) ==
    IF lines = <<>> \/ IsEmptyContent(lines) THEN 0
    ELSE GarbledScore(lines, collapsed) + StructureScore(lines, collapsed)
         + EmptyLinesScore(lines)

\* C24: the quality score of the post-processed text is at least the score
\* of the original text, for every text and either value of is_ocr.
C24_PostProcessNeverLowersScore ==
    tpc = "returned" =>
        ValidateMarkdownQuality(markdown_out, is_ocr)
            >= ValidateMarkdownQuality(markdown_in, FALSE)

(***************************************************************************)
(* SpecAgg: the knowledge-base files.  process_file merges each record     *)
(* into lite_llm/jfk_files.json with store_json_data (src/utils/storage.py)*)
(* and scripts/format_gpt_json.py turns an array of records into the array *)
(* that scripts/validate_gpt_json.py accepts.                              *)
(* A record is known by the key its document id is stored under ("docId":  *)
(* _convert_markdown_to_json; "document_id": parse_markdown_with_python    *)
(* and transform_pandoc_json_to_standard_format), the id and its content.  *)
(***************************************************************************)
MaxStores == 2             \* store_json_data calls
MaxIds == 2                \* document ids there are
MaxContents == 2           \* contents a document can have
MaxAggEntries == 3         \* entries of an array given to format_for_gpt

IdKeys == {"docId", "document_id"}

Record(k, i, c) == [key |-> k, id |-> i, content |-> c]

Records == { Record(k, i, c) : k \in IdKeys, i \in 1..MaxIds, c \in 1..MaxContents }

\* "Find and replace if this doc_id already exists": the first entry whose
\* content has a document_id equal to source_data.get("document_id", "").
Matches(entry, r) ==
    entry.key = "document_id" /\ r.key = "document_id" /\ entry.id = r.id

FirstMatch(es, r) ==
    IF \E i \in 1..Len(es) : Matches(es[i], r)
    THEN CHOOSE i \in 1..Len(es) :
            Matches(es[i], r) /\ \A j \in 1..(i - 1) : ~Matches(es[j], r)
    ELSE 0

\* store_json_data(source_json_path, output_path) on an output file that is
\* absent, a list, or unreadable as JSON.
StoreJsonDataWrite(file, r) ==
    IF file.state = "list"
    THEN IF FirstMatch(file.entries, r) > 0
         THEN KbFile("list", [file.entries EXCEPT ![FirstMatch(file.entries, r)] = r])
         ELSE KbFile("list", Append(file.entries, r))
    ELSE KbFile("list", <<r>>)

\* An element of input_data: the {"metadata": ...} element that
\* combine_json_files puts first, a record with a top-level document_id
\* (every such record has a "metadata" key too), or anything else (an entry
\* of store_json_data's file among them).
Entry(k, i, c) == [kind |-> k, id |-> i, content |-> c]

Entries ==
    {Entry("metadata", 0, 0), Entry("other", 0, 0)}
        \cup { Entry("doc", i, c) : i \in 1..MaxIds, c \in 1..MaxContents }

InputArrays == SeqsUpTo(Entries, MaxAggEntries)

\* What json.load gives for store_json_data's file.
KbArray(file) == [i \in 1..Len(file.entries) |-> Entry("other", 0, 0)]

\* "if i == 0 and isinstance(entry, dict) and 'metadata' in entry"
SkippedAsMetadata(input, i) == i = 1 /\ input[i].kind \in {"metadata", "doc"}

RECURSIVE FormatEntries(_, _, _, _)
FormatEntries(input, i, processed_docs, out) ==
    IF i > Len(input) THEN GptData(TRUE, Cardinality(processed_docs), out)
    ELSE IF SkippedAsMetadata(input, i) \/ input[i].kind # "doc"
              \/ input[i].id \in processed_docs
         THEN FormatEntries(input, i + 1, processed_docs, out)
         ELSE FormatEntries(input, i + 1, processed_docs \cup {input[i].id},
                            Append(out, [id |-> input[i].id,
                                         content |-> input[i].content]))

FormatForGpt(input) == FormatEntries(input, 1, {}, <<>>)

\* validate_json_structure: the count and the uniqueness of the ids.
ValidateJsonStructure(out) ==
    /\ out.document_count = Len(out.docs)
    /\ \A i, j \in 1..Len(out.docs) : out.docs[i].id = out.docs[j].id => i = j

\* process_file's store_json_data call.  The output file may have been
\* damaged since the last call.
StoreJson ==
    /\ apc = "storing"
    /\ Len(store_log) < MaxStores
    /\ \E r \in Records, damaged \in BOOLEAN :
         /\ damaged => store_log = <<>>
         /\ kb_file' = StoreJsonDataWrite(IF damaged THEN KbFile("corrupt", <<>>) ELSE kb_file, r)
         /\ store_log' = Append(store_log, r)
    /\ UNCHANGED <<apc, gpt_input, gpt_output>>
    /\ UNCHANGED nonAggVars

\* format_gpt_json.py on store_json_data's file, or on an array made
\* elsewhere when nothing was stored.
FormatGpt ==
    /\ apc = "storing"
    /\ \E input \in (IF store_log = <<>> THEN InputArrays ELSE {KbArray(kb_file)}) :
         /\ gpt_input' = input
         /\ gpt_output' = FormatForGpt(input)
    /\ apc' = "formatted"
    /\ UNCHANGED <<kb_file, store_log>>
    /\ UNCHANGED nonAggVars

AggInit == ConvIdle /\ FileIdle /\ OrchIdle("idle") /\ ToolsIdle

AggNext ==
    \/ StoreJson
    \/ FormatGpt

SpecAgg == AggInit /\ [][AggNext]_vars

(***************************************************************************)
(* Claims about the knowledge-base files                                   *)
(***************************************************************************)
\* Two records with one document id and different contents were stored one
\* after the other.
StoredTwoVersions ==
    /\ Len(store_log) = 2
    /\ store_log[1].key = store_log[2].key
    /\ store_log[1].id = store_log[2].id
    /\ store_log[1].content # store_log[2].content

\* The input array holds two records with one document id and different
\* contents, after its first element.
DocsOf(input) == {i \in 2..Len(input) : input[i].kind = "doc"}

FormattedTwoVersions ==
    /\ gpt_output.made
    /\ \E i, j \in DocsOf(gpt_input) :
          i < j /\ gpt_input[i].id = gpt_input[j].id
                /\ gpt_input[i].content # gpt_input[j].content

LastWithId(input, id) ==
    CHOOSE i \in DocsOf(input) :
        input[i].id = id /\ \A j \in DocsOf(input) : input[j].id = id => j <= i

\* C17: aggregating two records with one document id and different contents
\* leaves one entry for the id, with the content aggregated last, and
\* document_count is the array length minus 1.
C17_LastWriteWins ==
    /\ StoredTwoVersions =>
          /\ Cardinality({i \in 1..Len(kb_file.entries) :
                             kb_file.entries[i].id = store_log[2].id}) = 1
          /\ \A i \in 1..Len(kb_file.entries) :
                kb_file.entries[i].id = store_log[2].id =>
                    kb_file.entries[i].content = store_log[2].content
    /\ FormattedTwoVersions =>
          /\ ValidateJsonStructure(gpt_output)
          /\ \A k \in 1..Len(gpt_output.docs) :
                gpt_output.docs[k].content =
                    gpt_input[LastWithId(gpt_input, gpt_output.docs[k].id)].content

(***************************************************************************)
(* SpecCkpt: one checkpoint name saved again and again by                   *)
(* CheckpointManager.save (checkpoint_utils.py:51-80) or                    *)
(* EnhancedCheckpointManager.create_checkpoint (optimization.py:249-299),   *)
(* the process being killed at any point of a save and started again.      *)
(***************************************************************************)
MaxSaves == 3            \* saves begun, over all processes

Managers == {"basic", "enhanced"}

\* The path pickle.dump writes the checkpoint to (checkpoint_utils.py:64-68,
\* optimization.py:274-280).
WriteTarget_Final(manager) == "final"

WriteTarget(manager) == "temp"

\* save() / create_checkpoint() is entered with the next checkpoint's data.
SaveBegin(manager) ==
    /\ kpc.at = "idle"
    /\ kpc.v < MaxSaves
    /\ kpc' = Save("open", manager, kpc.v + 1, "none", FALSE)
    /\ UNCHANGED ckpt_dir
    /\ UNCHANGED nonCkptVars

\* open(temp_path, "wb"): the file exists and is empty; or open raises and the
\* except clause returns None.
SaveOpen ==
    /\ kpc.at = "open"
    /\ \/ /\ ckpt_dir' = [ckpt_dir EXCEPT ![WriteTarget(kpc.manager)] = CkptFile(kpc.v, FALSE)]
          /\ kpc' = [kpc EXCEPT !.at = "dump"]
       \/ /\ kpc' = [kpc EXCEPT !.at = "idle", !.result = "None"]
          /\ UNCHANGED ckpt_dir
    /\ UNCHANGED nonCkptVars

\* pickle.dump and the close of the with block: the file is whole; or the
\* dump raises part-way (unpicklable value, disk full) and None is returned.
SaveDump ==
    /\ kpc.at = "dump"
    /\ \/ /\ ckpt_dir' = [ckpt_dir EXCEPT ![WriteTarget(kpc.manager)] = CkptFile(kpc.v, TRUE)]
          /\ kpc' = [kpc EXCEPT !.at = IF kpc.manager = "enhanced" THEN "history_open"
                                       ELSE "rename"]
       \/ /\ kpc' = [kpc EXCEPT !.at = "idle", !.result = "None"]
          /\ UNCHANGED ckpt_dir
    /\ UNCHANGED nonCkptVars

\* create_checkpoint's second file: open(temp_history_file, 'wb').
SaveHistoryOpen ==
    /\ kpc.at = "history_open"
    /\ \/ /\ ckpt_dir' = [ckpt_dir EXCEPT !["history_temp"] = CkptFile(kpc.v, FALSE)]
          /\ kpc' = [kpc EXCEPT !.at = "history_dump"]
       \/ /\ kpc' = [kpc EXCEPT !.at = "idle", !.result = "None"]
          /\ UNCHANGED ckpt_dir
    /\ UNCHANGED nonCkptVars

SaveHistoryDump ==
    /\ kpc.at = "history_dump"
    /\ \/ /\ ckpt_dir' = [ckpt_dir EXCEPT !["history_temp"] = CkptFile(kpc.v, TRUE)]
          /\ kpc' = [kpc EXCEPT !.at = "rename"]
       \/ /\ kpc' = [kpc EXCEPT !.at = "idle", !.result = "None"]
          /\ UNCHANGED ckpt_dir
    /\ UNCHANGED nonCkptVars

\* os.rename / os.replace of the temporary file onto the final path: the final
\* path names the temporary file's content and the temporary name is gone; a
\* missing source raises.
Rename(dir, from, to) ==
    [dir EXCEPT ![to] = dir[from], ![from] = NoCkptFile]

SaveRename ==
    /\ kpc.at = "rename"
    /\ IF ckpt_dir["temp"].exists
       THEN /\ ckpt_dir' = Rename(ckpt_dir, "temp", "final")
            /\ kpc' = [kpc EXCEPT !.at = IF kpc.manager = "enhanced" THEN "history_rename"
                                         ELSE "idle",
                                  !.result = IF kpc.manager = "enhanced" THEN "none"
                                             ELSE "path"]
       ELSE /\ kpc' = [kpc EXCEPT !.at = "idle", !.result = "None"]
            /\ UNCHANGED ckpt_dir
    /\ UNCHANGED nonCkptVars

SaveHistoryRename ==
    /\ kpc.at = "history_rename"
    /\ ckpt_dir' = Rename(ckpt_dir, "history_temp", "history")
    /\ kpc' = [kpc EXCEPT !.at = "idle", !.result = "path"]
    /\ UNCHANGED nonCkptVars

\* The process is killed during a save; the files stay as they are and the
\* next process saves again.
SaveKilled ==
    /\ kpc.at # "idle"
    /\ kpc' = [kpc EXCEPT !.at = "idle", !.result = "none", !.killed = TRUE]
    /\ UNCHANGED ckpt_dir
    /\ UNCHANGED nonCkptVars

CkptInit == ConvIdle /\ FileIdle /\ OrchIdle("idle") /\ ToolsIdle

CkptNext ==
    \/ \E manager \in Managers : SaveBegin(manager)
    \/ SaveOpen
    \/ SaveDump
    \/ SaveHistoryOpen
    \/ SaveHistoryDump
    \/ SaveRename
    \/ SaveHistoryRename
    \/ SaveKilled

SpecCkpt == CkptInit /\ [][CkptNext]_vars

\* C21: at every point of a save, a kill included, the file at the
\* checkpoint's final path is absent or a whole checkpoint (the one saved
\* before or the one being saved), never a file cut short; the same for the
\* history file.
C21_FinalPathNeverPartial ==
    \A f \in {"final", "history"} :
        ckpt_dir[f].exists =>
            /\ ckpt_dir[f].whole
            /\ ckpt_dir[f].v <= kpc.v

\* C21's case: the process was killed during a save that had cut the
\* temporary file short, while the final path still holds the previous
\* checkpoint.
C21_Witness ==
    /\ kpc.killed
    /\ kpc.at = "idle"
    /\ ckpt_dir["temp"].exists /\ ~ckpt_dir["temp"].whole
    /\ ckpt_dir["final"].exists /\ ckpt_dir["final"].v < ckpt_dir["temp"].v

(***************************************************************************)
(* SpecPool: the configurations the pipeline builds                        *)
(* (batch_utils.py:407-413, optimization.py:707) and the resource checks   *)
(* of AdaptiveThreadPool's monitor thread (optimization.py:99-183).        *)
(***************************************************************************)
MaxCpus == 4             \* os.cpu_count() of the machines considered

MIN_WORKERS == 2
DEFAULT_MAX_WORKERS == 10
DEFAULT_INITIAL_WORKERS == 5
CPU_MAX_WORKERS_CAP == 20
NO_CPU_COUNT_WORKERS == 8
LOAD_CHECKS_BEFORE_ACTION == 3

\* os.cpu_count(): a number of CPUs, or None (0 here).
CpuCounts == 0..MaxCpus

\* batch_utils.py:409: min(20, os.cpu_count() * 2 if os.cpu_count() else 8).
OptimizedMaxWorkers(cpu_count) ==
    Min(CPU_MAX_WORKERS_CAP, IF cpu_count # 0 THEN cpu_count * 2 ELSE NO_CPU_COUNT_WORKERS)

\* The MAX_WORKERS of the configurations built: OptimizationConfig() as it is
\* (optimize_full_scale_processing) and the one of _process_all_files_optimized.
BuiltMaxWorkers ==
    {DEFAULT_MAX_WORKERS} \cup {OptimizedMaxWorkers(c) : c \in CpuCounts}

\* _throttle_processing / _accelerate_processing: the new active_workers.
ThrottleProcessing(active_workers) ==
    IF active_workers > MIN_WORKERS
    THEN Max(MIN_WORKERS, active_workers - 1)
    ELSE active_workers

AccelerateProcessing(active_workers, max_workers) ==
    IF active_workers < max_workers
    THEN Min(max_workers, active_workers + 1)
    ELSE active_workers

\* LargeScaleProcessor(config): AdaptiveThreadPool starts with INITIAL_WORKERS,
\* which no configuration built changes.
BuildPool ==
    /\ ~pool.built
    /\ \E max_workers \in BuiltMaxWorkers :
          pool' = Pool(TRUE, max_workers, DEFAULT_INITIAL_WORKERS, 0, 0)
    /\ UNCHANGED nonPoolVars

\* One pass of _monitor_resources' loop, for a CPU reading above the high
\* threshold, below the low one or between them, and a memory reading above
\* its threshold or not.
MonitorCheck ==
    /\ pool.built
    /\ \E cpu \in {"high", "low", "between"}, mem_high \in BOOLEAN :
          LET high == IF cpu = "high" THEN pool.consecutive_high_load + 1 ELSE 0
              low == IF cpu = "low" THEN pool.consecutive_low_load + 1 ELSE 0
              by_cpu == IF high >= LOAD_CHECKS_BEFORE_ACTION
                        THEN ThrottleProcessing(pool.active_workers)
                        ELSE IF low >= LOAD_CHECKS_BEFORE_ACTION
                        THEN AccelerateProcessing(pool.active_workers, pool.max_workers)
                        ELSE pool.active_workers
              by_mem == IF mem_high THEN ThrottleProcessing(by_cpu) ELSE by_cpu
          IN  pool' = Pool(TRUE, pool.max_workers, by_mem,
                           IF high >= LOAD_CHECKS_BEFORE_ACTION THEN 0 ELSE high,
                           IF high < LOAD_CHECKS_BEFORE_ACTION
                              /\ low >= LOAD_CHECKS_BEFORE_ACTION THEN 0 ELSE low)
    /\ UNCHANGED nonPoolVars

PoolInit == ConvIdle /\ FileIdle /\ OrchIdle("idle") /\ ToolsIdle

PoolNext == BuildPool \/ MonitorCheck

SpecPool == PoolInit /\ [][PoolNext]_vars

\* C23: for every configuration built, active_workers stays between
\* MIN_WORKERS and MAX_WORKERS, and one resource check changes it by at most 1.
C23_WorkersBoundedAndStepOne ==
    /\ [](pool.built =>
            (MIN_WORKERS <= pool.active_workers /\ pool.active_workers <= pool.max_workers))
    /\ [][ (pool.built /\ pool'.built) =>
              (pool'.active_workers - pool.active_workers) \in {-1, 0, 1} ]_vars

(***************************************************************************)
(* SpecStore: StorageManager on a few documents (src/utils/storage.py):    *)
(* store_file, a file removed from outside, cleanup(doc_id).  A document   *)
(* is in _metadata_index when its set of file types here is not empty.     *)
(***************************************************************************)
\* The file types cleanup walks through, in its order (line 351).
CleanupTypes == <<"pdf", "markdown", "json", "metadata">>

\* get_file_path(doc_id, file_type): "raise" for a type without an extension
\* branch (ValueError, line 197), "path" when the expected file exists or the
\* index knows the type, "None" otherwise.
GetFilePath(files, index, doc_id, file_type) ==
    IF file_type \notin StoredTypes THEN "raise"
    ELSE IF file_type \in files[doc_id] THEN "path"
    ELSE IF file_type \in index[doc_id] THEN "path"
    ELSE "None"

\* check_processing_status(doc_id).
CheckProcessingStatus(index, doc_id) ==
    IF index[doc_id] = {} THEN "not_found"
    ELSE IF StoredTypes \subseteq index[doc_id] THEN "complete"
    ELSE "partial"

\* cleanup's loop from its k-th file type on: the files left and whether
\* get_file_path raised.
RECURSIVE CleanupLoop(_, _, _, _)
CleanupLoop(files, index, doc_id, k) ==
    IF k > Len(CleanupTypes) THEN [files |-> files, raised |-> FALSE]
    ELSE LET file_type == CleanupTypes[k]
             path == GetFilePath(files, index, doc_id, file_type)
         IN  IF path = "raise" THEN [files |-> files, raised |-> TRUE]
             ELSE IF path = "path" /\ file_type \in files[doc_id]
             THEN CleanupLoop([files EXCEPT ![doc_id] = @ \ {file_type}], index,
                              doc_id, k + 1)
             ELSE CleanupLoop(files, index, doc_id, k + 1)

\* store_file(source_path, doc_id, file_type): the file is copied and the
\* index updated.
StoreFile(doc_id, file_type) ==
    /\ stored_files' = [stored_files EXCEPT ![doc_id] = @ \cup {file_type}]
    /\ metadata_index' = [metadata_index EXCEPT ![doc_id] = @ \cup {file_type}]
    /\ storage_call' = StorageCall("store_file", doc_id, TRUE, "path")
    /\ UNCHANGED nonStoreVars

\* A stored file is removed by something other than the manager.
FileRemoved(doc_id, file_type) ==
    /\ file_type \in stored_files[doc_id]
    /\ stored_files' = [stored_files EXCEPT ![doc_id] = @ \ {file_type}]
    /\ storage_call' = StorageCall("none", 0, FALSE, "none")
    /\ UNCHANGED metadata_index
    /\ UNCHANGED nonStoreVars

\* cleanup(doc_id): the loop over the file types, then the index entry is
\* deleted and True returned, unless the loop raised.
Cleanup(doc_id) ==
    LET loop == CleanupLoop(stored_files, metadata_index, doc_id, 1)
    IN  /\ stored_files' = loop.files
        /\ metadata_index' = IF loop.raised THEN metadata_index
                             ELSE [metadata_index EXCEPT ![doc_id] = {}]
        /\ storage_call' = StorageCall("cleanup", doc_id, stored_files[doc_id] # {},
                                       IF loop.raised THEN "ValueError" ELSE "True")
        /\ UNCHANGED nonStoreVars

StoreInit == ConvIdle /\ FileIdle /\ OrchIdle("idle") /\ ToolsIdle

StoreNext ==
    \E doc_id \in DocIds :
        \/ \E file_type \in StoredTypes : StoreFile(doc_id, file_type)
        \/ \E file_type \in StoredTypes : FileRemoved(doc_id, file_type)
        \/ Cleanup(doc_id)

SpecStore == StoreInit /\ [][StoreNext]_vars

\* C25: for a document id with at least one stored file, cleanup(doc_id)
\* completes and check_processing_status(doc_id) then returns not_found.
C25_CleanupRemovesDocument ==
    (storage_call.op = "cleanup" /\ storage_call.had_file) =>
        /\ storage_call.result = "True"
        /\ CheckProcessingStatus(metadata_index, storage_call.doc_id) = "not_found"

(***************************************************************************)
(* SpecSig: the threads of one process_urls call and the locks they take   *)
(* (src/optimization.py).  threading.Lock is not reentrant; the signal     *)
(* handler runs on the main thread, on top of whatever the main thread was *)
(* doing, and the main thread goes on only when the handler returns, which *)
(* it does not: it ends in sys.exit(0).                                    *)
(***************************************************************************)
Acquire(l, who) == lock_owner' = [lock_owner EXCEPT ![l] = who]

Release(l) == lock_owner' = [lock_owner EXCEPT ![l] = Nobody]

MainRuns == handler_at = "none"

\* process_urls 577-579 and submit 185-194: the main thread takes a URL off
\* the queue and enters "with self.lock" of AdaptiveThreadPool.submit.
MainSubmitEnter(t) ==
    /\ MainRuns /\ main_at = "loop"
    /\ task_at[t] = "queue"
    /\ lock_owner["pool"] = Nobody
    /\ Acquire("pool", MainThread)
    /\ main_at' = "submit"
    /\ task_at' = [task_at EXCEPT ![t] = "submitting"]
    /\ UNCHANGED handler_at
    /\ UNCHANGED nonSigVars

\* submit 195-196: executor.submit returned, the lock is released.
MainSubmitLeave(t) ==
    /\ MainRuns /\ main_at = "submit"
    /\ task_at[t] = "submitting"
    /\ Release("pool")
    /\ main_at' = "loop"
    /\ task_at' = [task_at EXCEPT ![t] = "submitted"]
    /\ UNCHANGED handler_at
    /\ UNCHANGED nonSigVars

\* process_urls 629: every future is done; the final checkpoint enters
\* create_checkpoint's "with self.lock".
MainFinalCheckpointEnter ==
    /\ MainRuns /\ main_at = "loop"
    /\ \A t \in Tasks : task_at[t] = "done"
    /\ lock_owner["manager"] = Nobody
    /\ Acquire("manager", MainThread)
    /\ main_at' = "final_checkpoint"
    /\ UNCHANGED <<task_at, handler_at>>
    /\ UNCHANGED nonSigVars

\* create_checkpoint 295-299 and process_urls 631.
MainFinalCheckpointLeave ==
    /\ MainRuns /\ main_at = "final_checkpoint"
    /\ Release("manager")
    /\ main_at' = "returned"
    /\ UNCHANGED <<task_at, handler_at>>
    /\ UNCHANGED nonSigVars

\* _process_file_wrapper 430-438: process_file runs, no lock held.
TaskProcessFile(t) ==
    /\ task_at[t] = "submitted"
    /\ task_at' = [task_at EXCEPT ![t] = "process_file"]
    /\ UNCHANGED <<main_at, handler_at, lock_owner>>
    /\ UNCHANGED nonSigVars

\* 441 / 471: "with self.lock" around the bookkeeping.
TaskLockEnter(t) ==
    /\ task_at[t] = "process_file"
    /\ lock_owner["processor"] = Nobody
    /\ Acquire("processor", Owner("worker", t))
    /\ task_at' = [task_at EXCEPT ![t] = "bookkeeping"]
    /\ UNCHANGED <<main_at, handler_at>>
    /\ UNCHANGED nonSigVars

\* 457-458: the periodic checkpoint, inside the processor's lock.
TaskCheckpointEnter(t) ==
    /\ task_at[t] = "bookkeeping"
    /\ lock_owner["manager"] = Nobody
    /\ Acquire("manager", Owner("worker", t))
    /\ task_at' = [task_at EXCEPT ![t] = "checkpoint"]
    /\ UNCHANGED <<main_at, handler_at>>
    /\ UNCHANGED nonSigVars

TaskCheckpointLeave(t) ==
    /\ task_at[t] = "checkpoint"
    /\ Release("manager")
    /\ task_at' = [task_at EXCEPT ![t] = "checkpointed"]
    /\ UNCHANGED <<main_at, handler_at>>
    /\ UNCHANGED nonSigVars

\* 466 / 484: the with block ends and the wrapper returns.
TaskReturn(t) ==
    /\ task_at[t] \in {"bookkeeping", "checkpointed"}
    /\ Release("processor")
    /\ task_at' = [task_at EXCEPT ![t] = "done"]
    /\ UNCHANGED <<main_at, handler_at>>
    /\ UNCHANGED nonSigVars

\* 413-416: SIGINT / SIGTERM / SIGHUP arrives while process_urls runs;
\* signal_handler calls shutdown(), whose first step is
\* _create_processing_checkpoint (643).
Signal ==
    /\ handler_at = "none"
    /\ main_at # "returned"
    /\ handler_at' = "wants_manager"
    /\ UNCHANGED <<main_at, task_at, lock_owner>>
    /\ UNCHANGED nonSigVars

\* create_checkpoint 251: the handler gets the manager's lock.
HandlerCheckpointEnter ==
    /\ handler_at = "wants_manager"
    /\ lock_owner["manager"] = Nobody
    /\ Acquire("manager", Owner("handler", 0))
    /\ handler_at' = "checkpoint"
    /\ UNCHANGED <<main_at, task_at>>
    /\ UNCHANGED nonSigVars

\* create_checkpoint returns; shutdown goes on to thread_pool.shutdown(),
\* which waits for the tasks handed to the executor (646, 212-217).
HandlerCheckpointLeave ==
    /\ handler_at = "checkpoint"
    /\ Release("manager")
    /\ handler_at' = "joining"
    /\ UNCHANGED <<main_at, task_at>>
    /\ UNCHANGED nonSigVars

\* executor.shutdown(wait=True) returns, the metrics are reported (652) and
\* sys.exit(0) ends the process (416).
HandlerExit ==
    /\ handler_at = "joining"
    /\ \A t \in Tasks : task_at[t] \in {"queue", "submitting", "done"}
    /\ handler_at' = "exited"
    /\ UNCHANGED <<main_at, task_at, lock_owner>>
    /\ UNCHANGED nonSigVars

SigInit == ConvIdle /\ FileIdle /\ OrchIdle("idle") /\ ToolsIdle

SigNext ==
    \/ \E t \in Tasks :
          \/ MainSubmitEnter(t)
          \/ MainSubmitLeave(t)
          \/ TaskProcessFile(t)
          \/ TaskLockEnter(t)
          \/ TaskCheckpointEnter(t)
          \/ TaskCheckpointLeave(t)
          \/ TaskReturn(t)
    \/ MainFinalCheckpointEnter
    \/ MainFinalCheckpointLeave
    \/ Signal
    \/ HandlerCheckpointEnter
    \/ HandlerCheckpointLeave
    \/ HandlerExit

\* Every thread that can take a step eventually takes one.
SpecSig == SigInit /\ [][SigNext]_vars /\ WF_vars(SigNext)

\* C27: a termination signal delivered at any point of process_urls leads to
\* shutdown completing.
C27_SignalLeadsToExit ==
    (handler_at # "none") ~> (handler_at = "exited")

(***************************************************************************)
(* SpecShare: the workers of the pool each finish one document and call    *)
(* store_json_data on the one aggregate file (batch_utils.py:80-86,        *)
(* storage.py:471-535).  Worker w stores the mapper's record of document w.*)
(***************************************************************************)
\* The record worker w stores: what _convert_markdown_to_json wrote for its
\* document.
RecordOf(w) == Record("docId", w, 1)

\* Lines 494-524: the file is read, when it exists with more than 10 bytes;
\* a file that another worker has opened for writing and not yet filled is
\* short or not JSON, and is taken as no file.
ShareRead(w) ==
    /\ writer_at[w] = "process_file"
    /\ existing_data' = [existing_data EXCEPT ![w] = output_file]
    /\ writer_at' = [writer_at EXCEPT ![w] = "read"]
    /\ UNCHANGED output_file
    /\ UNCHANGED nonShareVars

\* Line 527: open(output_path, 'w') empties the file.
ShareOpen(w) ==
    /\ writer_at[w] = "read"
    /\ output_file' = KbFile("corrupt", <<>>)
    /\ writer_at' = [writer_at EXCEPT ![w] = "opened"]
    /\ UNCHANGED existing_data
    /\ UNCHANGED nonShareVars

\* Lines 528-531: the list made from what this worker read is dumped and
\* True returned.
ShareDump(w) ==
    /\ writer_at[w] = "opened"
    /\ output_file' = StoreJsonDataWrite(existing_data[w], RecordOf(w))
    /\ writer_at' = [writer_at EXCEPT ![w] = "True"]
    /\ UNCHANGED existing_data
    /\ UNCHANGED nonShareVars

ShareInit == ConvIdle /\ FileIdle /\ OrchIdle("idle") /\ ToolsIdle

ShareNext == \E w \in Writers : ShareRead(w) \/ ShareOpen(w) \/ ShareDump(w)

SpecShare == ShareInit /\ [][ShareNext]_vars

\* C28: once every worker's store_json_data call has returned True, the
\* aggregate file has an entry for every document stored.
C28_NoEntryLost ==
    (\A w \in Writers : writer_at[w] = "True") =>
        \A w \in Writers :
            \E i \in 1..Len(output_file.entries) : output_file.entries[i] = RecordOf(w)

(***************************************************************************)
(* SpecBatch: process_all_files and _process_all_files_optimized           *)
(* (src/utils/batch_utils.py:227-434).  The interpreter's recursion limit  *)
(* is scaled down to a few frames.                                         *)
(***************************************************************************)
RECURSION_LIMIT == 11     \* frames the interpreter allows (sys.getrecursionlimit())

\* How one run of the optimized processor ends: process_urls returns, or
\* something under the try block raises ImportError or another Exception.
OptimizedOutcomes == {"returned", "ImportError", "Exception"}

\* process_all_files is called from outside.
ProcessAllFilesCall ==
    /\ batch.at = "idle"
    /\ \E importable \in BOOLEAN :
          batch' = Batch("process_all_files", importable, 1, <<>>, FALSE, "none")
    /\ UNCHANGED nonBatchVars

\* Lines 244-265: the import of src.optimization decides between the
\* optimized path and the basic batch loop; a call beyond the recursion limit
\* raises RecursionError, which the handlers it unwinds through (each inside
\* an except clause already) let pass to the outermost caller.
ProcessAllFilesBody ==
    /\ batch.at = "process_all_files"
    /\ IF batch.has_optimization
       THEN IF batch.frames + 1 > RECURSION_LIMIT
            THEN batch' = [batch EXCEPT !.at = "done", !.frames = 0,
                                        !.result = "RecursionError"]
            ELSE batch' = [batch EXCEPT !.at = "optimized", !.frames = @ + 1]
       ELSE batch' = [batch EXCEPT !.at = "basic"]
    /\ UNCHANGED nonBatchVars

\* Lines 388-434: the optimized processor runs; its result is returned, or
\* either handler calls process_all_files(urls, resume).
ProcessAllFilesOptimized ==
    /\ batch.at = "optimized"
    /\ \E outcome \in OptimizedOutcomes :
          IF outcome = "returned"
          THEN batch' = [batch EXCEPT !.at = "done", !.frames = 0,
                                      !.runs_ended = Append(@, outcome),
                                      !.result = "returned"]
          ELSE IF batch.frames + 1 > RECURSION_LIMIT
          THEN batch' = [batch EXCEPT !.at = "done", !.frames = 0,
                                      !.runs_ended = Append(@, outcome),
                                      !.result = "RecursionError"]
          ELSE batch' = [batch EXCEPT !.at = "process_all_files", !.frames = @ + 1,
                                      !.runs_ended = Append(@, outcome)]
    /\ UNCHANGED nonBatchVars

\* Lines 266-374: the basic batch loop runs and its counts are returned
\* through every frame.
ProcessAllFilesBasic ==
    /\ batch.at = "basic"
    /\ batch' = [batch EXCEPT !.at = "done", !.frames = 0, !.basic_ran = TRUE,
                              !.result = "returned"]
    /\ UNCHANGED nonBatchVars

BatchInit == ConvIdle /\ FileIdle /\ OrchIdle("idle") /\ ToolsIdle

BatchNext ==
    \/ ProcessAllFilesCall
    \/ ProcessAllFilesBody
    \/ ProcessAllFilesOptimized
    \/ ProcessAllFilesBasic

SpecBatch == BatchInit /\ [][BatchNext]_vars

\* The optimized processor raised during this process_all_files call.
OptimizedRaised == batch.runs_ended # <<>> /\ batch.runs_ended[1] # "returned"

\* C29: if the optimized processor raises, the fallback runs the basic batch
\* processing and process_all_files returns a result; the optimized path is
\* not entered again.
C29_FallbackRunsBasicOnce ==
    OptimizedRaised =>
        /\ Len(batch.runs_ended) = 1
        /\ batch.at # "optimized"
        /\ batch.at = "done" => (batch.basic_ran /\ batch.result = "returned")

====
